---- MODULE Spec2Model ----
(***************************************************************************)
(* Model of the per-call turn-taking coordinator of the voice bridge:     *)
(* backend/app/services/voice_service.py (VoiceService), driven by the    *)
(* websocket route backend/app/routes/voice.py and by the transcript      *)
(* callback registered with backend/app/services/stt_service.py.          *)
(*                                                                         *)
(* The program runs on one asyncio event loop.  A step of the model is    *)
(* the code a coroutine executes between two suspension points (an await  *)
(* that really yields: the engine calls, asyncio.sleep, websocket I/O).   *)
(* A session is one dict stored in VoiceService.active_calls; a repeated  *)
(* stream-start for a call ID stores a NEW dict, and closures / locals    *)
(* that captured the old dict keep using it, so sessions are modelled as  *)
(* numbered objects (an index into calls) and active_calls maps a call ID *)
(* to the index of the dict currently registered (0 = not registered).    *)
(*                                                                         *)
(* A text is a sequence of tokens (words and the space token), so that    *)
(* str.strip() and " ".join() are computed, not assumed.                   *)
(* Latency timestamps and log output are not modelled.                    *)
(***************************************************************************)
EXTENDS Integers, Sequences, FiniteSets, TLC

\* ---------------------------------------------------------------- bounds
MaxSessions == 2        \* session dicts ever created (all call IDs together)
MaxTasks == 2           \* asyncio tasks alive at one time (timers + suspended handlers)
MaxTranscripts == 3     \* transcript events handled for registered sessions
MaxTurns == 7           \* the same, in the specification of whole turns (TurnSpec)
MaxFrames == 3          \* media events received per call ID (MediaSpec)
MaxStray == 2           \* transcript events handled for registered sessions (StraySpec, PairSpec)
MaxPairFrames == 1      \* media events received, all call IDs together (PairSpec)

CallIds == {"CA", "CB"}
\* the call that is active where one call is followed alone
OneCall == {"CA"}
SP == " "
\* transcripts as delivered to the callback (before strip)
RawTranscripts == {<<"hello">>, <<"world">>, <<SP, "hello", SP>>, <<SP>>, <<>>}
Replies == {<<"ok">>}
\* what get_response returns when the engine call raised
Apology == <<"sorry">>

VARIABLES
    active_calls,   \* VoiceService.active_calls : call ID -> session index, 0 = absent
    calls,          \* the session dicts ever created (sequence, index = identity)
    tasks,          \* asyncio tasks: debounce timers and suspended transcript handlers
    stt_streams,    \* STTService.active_connections (set of call IDs)
    conn,           \* websocket route handler per call ID: "closed" | "open" | "stopped"
    gpt_enabled,    \* GPTService.enabled
    tts_enabled,    \* TTSService.enabled
    stt_enabled,    \* STTService.enabled
    trig,           \* history: per session dict, its last two flush triggers
    events,         \* history: transcript events handled for registered sessions
    media,          \* history per call ID: media events received, the frames
                    \* handle_media decoded, the chunks given to the engine
    rms             \* the calls of calculate_rms so far: argument and outcome

vars == <<active_calls, calls, tasks, stt_streams, conn,
          gpt_enabled, tts_enabled, stt_enabled, trig, events, media, rms>>

\* ------------------------------------------------------------ pure helpers
RECURSIVE LStrip(_)
LStrip(s) == IF s # <<>> /\ Head(s) = SP THEN LStrip(Tail(s)) ELSE s

RECURSIVE RStrip(_)
RStrip(s) ==
    IF s # <<>> /\ s[Len(s)] = SP THEN RStrip(SubSeq(s, 1, Len(s) - 1)) ELSE s

\* a strip that leaves trailing whitespace
StripLeftOnly(s) == LStrip(s)

\* str.strip()
Strip(s) == RStrip(LStrip(s))

\* a faulty join: the fragments run together without the separator
RECURSIVE JoinNoSeparator(_)
JoinNoSeparator(buf) ==
    IF buf = <<>> THEN <<>> ELSE buf[1] \o JoinNoSeparator(Tail(buf))

\* a faulty join: a space after every fragment, the last one too
RECURSIVE JoinTrailingSpace(_)
JoinTrailingSpace(buf) ==
    IF buf = <<>> THEN <<>> ELSE buf[1] \o <<SP>> \o JoinTrailingSpace(Tail(buf))

\* " ".join(conversation_buffer)
RECURSIVE Join(_)
Join(buf) ==
    IF buf = <<>> THEN <<>>
    ELSE IF Len(buf) = 1 THEN buf[1]
    ELSE buf[1] \o <<SP>> \o Join(Tail(buf))

\* conversation_history[-10:]
HistoryCap == 10

\* a faulty trim: one entry too many survives
\* a service that never trims
TrimNever(h) == h

TrimOffByOne(h) ==
    IF Len(h) > HistoryCap THEN SubSeq(h, Len(h) - HistoryCap, Len(h)) ELSE h

\* a faulty trim: the newest entries are dropped instead of the oldest
TrimKeepsOldest(h) ==
    IF Len(h) > HistoryCap THEN SubSeq(h, 1, HistoryCap) ELSE h

TrimHistory(h) ==
    IF Len(h) > HistoryCap THEN SubSeq(h, Len(h) - HistoryCap + 1, Len(h)) ELSE h

\* ---------------------------------------------------------------- codec
ULAW_BIAS == 132

RECURSIVE Pow2(_)
Pow2(n) == IF n = 0 THEN 1 ELSE 2 * Pow2(n - 1)

\* the textbook expansion, which takes the bias off again after the shift
UlawBiasRemoved(ulaw_byte) ==
    LET u == 255 - ulaw_byte
        exponent == (u \div 16) % 8
        mantissa == u % 16
        sample == (mantissa * 8 + ULAW_BIAS) * Pow2(exponent) - ULAW_BIAS
    IN IF u \div 128 # 0 THEN 0 - sample ELSE sample

\* ulaw_to_linear: the low eight bits of ~b are 255 - b; sign is bit 7,
\* exponent bits 4..6, mantissa bits 0..3
ulaw_to_linear(ulaw_byte) ==
    LET u == 255 - ulaw_byte
        exponent == (u \div 16) % 8
        mantissa == u % 16
        sample == mantissa * Pow2(exponent + 3) + ULAW_BIAS * Pow2(exponent)
    IN IF u \div 128 # 0 THEN 0 - sample ELSE sample

\* struct.pack('<h', sample): two's complement, low byte first
PackShort(sample) ==
    LET w == IF sample < 0 THEN sample + 65536 ELSE sample
    IN << w % 256, w \div 256 >>

\* ulaw_decode: every companded byte becomes one 16-bit sample
RECURSIVE ulaw_decode(_)
ulaw_decode(ulaw_data) ==
    IF ulaw_data = <<>> THEN <<>>
    ELSE PackShort(ulaw_to_linear(Head(ulaw_data))) \o ulaw_decode(Tail(ulaw_data))

\* ---------------------------------------------------------------- base64
B64Alphabet ==
   <<
      "A", "B", "C", "D", "E", "F", "G", "H", "I", "J", "K", "L", "M", "N", "O", "P",
      "Q", "R", "S", "T", "U", "V", "W", "X", "Y", "Z", "a", "b", "c", "d", "e", "f",
      "g", "h", "i", "j", "k", "l", "m", "n", "o", "p", "q", "r", "s", "t", "u", "v",
      "w", "x", "y", "z", "0", "1", "2", "3", "4", "5", "6", "7", "8", "9", "+", "/"
   >>
B64Pad == "="
B64Value(ch) == (CHOOSE i \in 1..Len(B64Alphabet) : B64Alphabet[i] = ch) - 1

\* base64.b64decode(payload) with validate=False, as binascii.a2b_base64
\* computes it: characters outside the alphabet are skipped, every quad of
\* digits gives up to three bytes, a complete pad sequence ends the input,
\* and input that ends inside a quad raises binascii.Error (ok = FALSE)
RECURSIVE a2b_base64(_, _, _, _, _)
a2b_base64(data, quad_pos, leftchar, pads, out) ==
    IF data = <<>> THEN [ok |-> quad_pos = 0, bytes |-> out]
    ELSE LET ch == Head(data)
             rest == Tail(data)
         IN IF ch = B64Pad THEN
                 IF quad_pos >= 2 /\ quad_pos + pads + 1 >= 4
                 THEN [ok |-> TRUE, bytes |-> out]
                 ELSE a2b_base64(rest, quad_pos, leftchar,
                                 IF quad_pos >= 2 THEN pads + 1 ELSE pads, out)
            ELSE IF \A i \in 1..Len(B64Alphabet) : B64Alphabet[i] # ch THEN
                 a2b_base64(rest, quad_pos, leftchar, pads, out)
            ELSE LET v == B64Value(ch)
                 IN CASE quad_pos = 0 -> a2b_base64(rest, 1, v, 0, out)
                      [] quad_pos = 1 -> a2b_base64(rest, 2, v % 16, 0,
                                                    Append(out, leftchar * 4 + v \div 16))
                      [] quad_pos = 2 -> a2b_base64(rest, 3, v % 4, 0,
                                                    Append(out, leftchar * 16 + v \div 4))
                      [] quad_pos = 3 -> a2b_base64(rest, 0, 0, 0,
                                                    Append(out, leftchar * 64 + v))

b64decode(payload) == a2b_base64(payload, 0, 0, 0, <<>>)

\* the dict stored by handle_stream_start
NewCallInfo ==
    [ audio_chunks              |-> 0,
      bytes_received            |-> 0,
      transcription_count       |-> 0,
      conversation_buffer       |-> <<>>,
      buffer_handed             |-> <<>>,   \* history: per fragment, was it passed to _process_with_gpt
      gpt_response_count        |-> 0,
      conversation_history      |-> <<>>,
      gpt_timer                 |-> 0,      \* None = 0, else a task index
      processing_lock           |-> FALSE,
      last_processed_text       |-> <<>>,   \* None = <<>>, else <<text>>
      duplicate_prevention_count |-> 0,
      dropped                   |-> FALSE,  \* history: a clear removed a fragment never handed on
      turns                     |-> <<>>,   \* history: every exchange ever appended, oldest first
      stream_sid                |-> "",
      is_local                  |-> FALSE,
      out                       |-> <<>>,   \* history: every message sent on the websocket
      synthesized               |-> <<>> ]  \* history: what each synthesis returned

\* A task slot.  A finished task leaves its slot ("free"); a gpt_timer handle
\* that still refers to it becomes Finished: every finished Task object
\* behaves alike (truthy, cancel() does nothing).
Finished == -1
NewTask(kind, cid, ci, pc, text, target) ==
    [ kind |-> kind, call_sid |-> cid, call_info |-> ci, pc |-> pc,
      must_cancel |-> FALSE, user_input |-> text, target |-> target,
      audio |-> <<>>,     \* stream_to_chunks: audio_data
      pos |-> 0,          \* stream_to_chunks: bytes already yielded
      slept |-> 0,        \* milliseconds the generator has slept so far
      sink |-> 0,         \* _send_audio_response: call_info (None = 0)
      resp |-> 0 ]        \* history: which synthesis of that session it plays
FreeTask == NewTask("none", "", 0, "free", <<>>, 0)

\* a faulty cancel: the request is lost
CancelNothing(tk, h) == tk

\* Task.cancel(): a task that has not finished gets CancelledError at its next step
CancelTask(tk, h) ==
    IF h \in DOMAIN tk /\ tk[h].pc # "free" THEN [tk EXCEPT ![h].must_cancel = TRUE] ELSE tk

\* the task in slot t ended: free the slot and age the handle that names it
EndTask(tk, t) == [tk EXCEPT ![t] = FreeTask]
AgeHandle(cl, t) ==
    [s \in DOMAIN cl |-> IF cl[s].gpt_timer = t THEN [cl[s] EXCEPT !.gpt_timer = Finished]
                          ELSE cl[s]]

Init ==
    /\ active_calls = [c \in CallIds |-> 0]
    /\ calls = <<>>
    /\ tasks = [t \in 1..MaxTasks |-> FreeTask]
    /\ stt_streams = {}
    /\ conn = [c \in CallIds |-> "closed"]
    /\ gpt_enabled \in BOOLEAN
    /\ tts_enabled \in BOOLEAN
    /\ stt_enabled \in BOOLEAN
    /\ trig = <<>>
    /\ events = 0
    /\ media = [c \in CallIds |-> [received |-> 0, frames |-> <<>>, sent |-> <<>>]]
    /\ rms = <<>>

\* ------------------------------------------------- history bookkeeping
\* remember the last two flush triggers of session dict ci: the text handed to
\* the guard, the outcome, who triggered ("eos" handler or "timer"), whether
\* that task had been cancelled, and how many transcript events the session
\* had counted by then
Record(tr, ci, text, out, src, stale, n) ==
    LET e == [text |-> text, out |-> out, src |-> src, stale |-> stale, n |-> n]
    IN [tr EXCEPT ![ci] = IF @ = <<>> THEN <<e>> ELSE <<@[Len(@)], e>>]

\* A session dict is live while the registry or a task (closure call_info,
\* or the call_info local of a suspended _process_with_gpt) refers to it.
Live(s, ac, tk) ==
    \/ \E c \in CallIds : ac[c] = s
    \/ \E t \in DOMAIN tk : tk[t].pc # "free" /\ (tk[t].call_info = s \/ tk[t].target = s)

\* A dict nothing refers to any more is garbage: it cannot be read or
\* written again, so its contents are dropped from the state.
Collect(cl, ac, tk) ==
    [s \in DOMAIN cl |-> IF Live(s, ac, tk) THEN cl[s] ELSE NewCallInfo]
CollectTrig(tr, ac, tk) ==
    [s \in DOMAIN tr |-> IF Live(s, ac, tk) THEN tr[s] ELSE <<>>]

\* ------------------------------------------------------ STTService
\* start_stream: refused when disabled or when the call ID already has an
\* entry; otherwise the connection is stored unless connecting raised (ok)
SttStart(streams, cid, ok) ==
    IF stt_enabled /\ cid \notin streams /\ ok THEN streams \cup {cid} ELSE streams

\* a faulty stop: closing one stream drops every entry
SttStopAll(streams, cid, ok) == IF cid \in streams /\ ok THEN {} ELSE streams

\* a faulty stop: the entry is deleted even when closing raised
SttStopForgets(streams, cid, ok) == streams \ {cid}

\* stop_stream: no entry -> False; the entry is deleted unless closing raised
SttStop(streams, cid, ok) ==
    IF cid \in streams /\ ok THEN streams \ {cid} ELSE streams

\* ------------------------------------------------------ websocket route
\* websocket_stream: await websocket.accept()
Connect(cid) ==
    /\ conn[cid] = "closed"
    /\ conn' = [conn EXCEPT ![cid] = "open"]
    /\ UNCHANGED <<rms, media, active_calls, calls, tasks, stt_streams,
                   gpt_enabled, tts_enabled, stt_enabled, trig, events>>

\* event "start" -> VoiceService.handle_stream_start
StreamSids == {"MZ1", "MZ2"}

\* handle_stream_start for a start message carrying stream id sid, on a
\* websocket that has (local) or has not the _is_local_test attribute
StreamStartAs(cid, ok, sid, local) ==
    /\ conn[cid] = "open"
    /\ Len(calls) < MaxSessions
    /\ active_calls' = [active_calls EXCEPT ![cid] = Len(calls) + 1]
    /\ calls' = Collect(Append(calls, [NewCallInfo EXCEPT !.stream_sid = sid,
                                                          !.is_local = local]),
                        active_calls', tasks)
    /\ trig' = CollectTrig(Append(trig, <<>>), active_calls', tasks)
    /\ stt_streams' = SttStart(stt_streams, cid, ok)
    /\ UNCHANGED <<rms, media, tasks, conn, gpt_enabled, tts_enabled, stt_enabled, events>>

\* the telephony route: its websocket never has the attribute
StreamStart(cid, ok) == StreamStartAs(cid, ok, "MZ1", FALSE)

\* a faulty check: the stream is stopped for unregistered calls too
MustStopAlways(cid) == stt_enabled

\* handle_stream_stop and cleanup_call call stop_stream only for a
\* registered call and an enabled engine
MustStop(cid) == active_calls[cid] # 0 /\ stt_enabled

\* event "stop" -> VoiceService.handle_stream_stop, then the loop breaks
StreamStop(cid, ok) ==
    /\ conn[cid] = "open"
    /\ conn' = [conn EXCEPT ![cid] = "stopped"]
    /\ stt_streams' = IF MustStop(cid)
                      THEN SttStop(stt_streams, cid, ok) ELSE stt_streams
    /\ UNCHANGED <<rms, media, active_calls, calls, tasks,
                   gpt_enabled, tts_enabled, stt_enabled, trig, events>>

\* the route's finally block -> VoiceService.cleanup_call
\* (reached after "stop", on disconnect and on any exception of the loop)
Cleanup(cid, ok) ==
    /\ conn[cid] \in {"open", "stopped"}
    /\ conn' = [conn EXCEPT ![cid] = "closed"]
    /\ stt_streams' = IF MustStop(cid)
                      THEN SttStop(stt_streams, cid, ok) ELSE stt_streams
    /\ active_calls' = [active_calls EXCEPT ![cid] = 0]
    /\ calls' = Collect(calls, active_calls', tasks)
    /\ trig' = CollectTrig(trig, active_calls', tasks)
    /\ UNCHANGED <<rms, media, tasks, gpt_enabled, tts_enabled, stt_enabled, events>>

\* ------------------------------------------------ media frames
\* payloads of "media" events: absent/empty, 0xFF, 0x00 0x7F, a payload that
\* lost its padding, and a lone pad character
Payloads ==
    { <<>>, <<"/", "w", "=", "=">>, <<"A", "H", "8", "=">>, <<"/", "w">>, <<"=">> }

\* a faulty statistic: the size of the expanded PCM is counted
PcmBytes(audio_data) == 2 * Len(audio_data)

\* bytes_received += len(audio_data)
FrameBytes(audio_data) == Len(audio_data)

\* _process_audio reaches send_media: the engine is enabled and
\* STTService.active_connections has an entry for the call ID
Forwards(cid) == stt_enabled /\ cid \in stt_streams

\* event "media": the route hands a non-empty payload to handle_media, which
\* returns for an unknown call and logs a payload that fails to decode;
\* otherwise the frame is counted, expanded and sent to the engine
\* (ok: send_media did not raise; send_audio logs when it does)
MediaEvent(cid, payload, ok) ==
    /\ conn[cid] = "open"
    /\ media[cid].received < MaxFrames
    /\ LET s == active_calls[cid]
           audio_data == b64decode(payload)
           counted == payload # <<>> /\ s # 0 /\ audio_data.ok
           fwd == counted /\ Forwards(cid) /\ ok
       IN /\ calls' = IF counted
                      THEN [calls EXCEPT
                              ![s].audio_chunks = @ + 1,
                              ![s].bytes_received = @ + FrameBytes(audio_data.bytes)]
                      ELSE calls
          /\ media' = [media EXCEPT ![cid] =
                [received |-> @.received + 1,
                 frames |-> IF counted
                            THEN Append(@.frames, [data |-> audio_data.bytes, fwd |-> fwd])
                            ELSE @.frames,
                 sent |-> IF fwd THEN Append(@.sent, ulaw_decode(audio_data.bytes))
                          ELSE @.sent]]
    /\ UNCHANGED <<rms, active_calls, tasks, stt_streams, conn,
                   gpt_enabled, tts_enabled, stt_enabled, trig, events>>

\* ------------------------------------------------ VoiceService internals
\* the two duplicate checks in front of _process_with_gpt
\* (identical in _handle_transcript and in delayed_process)
Guard(c, user_input) ==
    IF c.processing_lock THEN "in_progress"
    ELSE IF c.last_processed_text = <<user_input>> THEN "duplicate"
    ELSE "accepted"

\* a rejected trigger: duplicate_prevention_count += 1; return
Reject(c) == [c EXCEPT !.duplicate_prevention_count = @ + 1]

\* history: the buffered fragments were joined and passed to _process_with_gpt
MarkHanded(c) ==
    [c EXCEPT !.buffer_handed = [i \in 1..Len(@) |-> TRUE]]

\* call_info["conversation_buffer"].clear()
ClearBuffer(c) ==
    [c EXCEPT !.conversation_buffer = <<>>,
              !.buffer_handed = <<>>,
              !.dropped = @ \/ (\E i \in 1..Len(c.buffer_handed) : ~c.buffer_handed[i])]

\* _process_with_gpt up to its first await: set the lock and the last text
\* on the dict registered for the call ID NOW (tgt)
ProcessStart(cl, tgt, user_input) ==
    [cl EXCEPT ![tgt].processing_lock = TRUE,
               ![tgt].last_processed_text = <<user_input>>]

\* a faulty release: the flag stays set when the turn ends
KeepLock(cl, tgt) == cl

\* finally: call_info["processing_lock"] = False
ReleaseLock(cl, tgt) == [cl EXCEPT ![tgt].processing_lock = FALSE]

\* _process_with_gpt returned normally to the handler that awaited it:
\* the finally block, then the handler's conversation_buffer.clear()
Finish(cl, tk) ==
    LET c1 == ReleaseLock(cl, tk.target)
    IN [c1 EXCEPT ![tk.call_info] = ClearBuffer(@)]

\* a faulty scheduler: a task whose awaited sleep or call already completed
\* resumes normally although cancel() was requested meanwhile
ResumeAlways(tk) == TRUE

\* asyncio delivers CancelledError instead of resuming a cancelled task
MayResume(tk) == ~tk.must_cancel

\* the slot a new task gets (0: none free)
FreeSlot ==
    IF \E t \in 1..MaxTasks : tasks[t].pc = "free"
    THEN CHOOSE t \in 1..MaxTasks :
            tasks[t].pc = "free" /\ \A u \in 1..(t - 1) : tasks[u].pc # "free"
    ELSE 0

\* the task in slot t ends, leaving cl behind
End(cl, t) ==
    /\ tasks' = EndTask(tasks, t)
    /\ calls' = Collect(AgeHandle(cl, t), active_calls, tasks')
    /\ trig' = CollectTrig(trig, active_calls, tasks')

\* the same when the step also recorded a flush trigger
EndWith(cl, t, tr) ==
    /\ tasks' = EndTask(tasks, t)
    /\ calls' = Collect(AgeHandle(cl, t), active_calls, tasks')
    /\ trig' = CollectTrig(tr, active_calls, tasks')

\* ------------------------------------------------ _handle_transcript
\* speech_final branch: cancel the timer, join, guard, _process_with_gpt
EosFlush(cid, ci, c1) ==
    LET tk1 == CancelTask(tasks, c1.gpt_timer)
        user_input == Join(c1.conversation_buffer)
        out == Guard(c1, user_input)
        new == FreeSlot
        Heard(o) == Record(trig, ci, user_input, o, "eos", FALSE, c1.transcription_count)
    IN IF out # "accepted" THEN
            /\ calls' = [calls EXCEPT ![ci] = Reject(c1)]
            /\ tasks' = tk1
            /\ trig' = Heard(out)
       ELSE IF ~gpt_enabled THEN
            /\ calls' = [calls EXCEPT ![ci] = ClearBuffer(MarkHanded(c1))]
            /\ tasks' = tk1
            /\ trig' = Heard("no_engine")
       ELSE
            /\ new # 0
            /\ calls' = ProcessStart([calls EXCEPT ![ci] = MarkHanded(c1)], ci, user_input)
            /\ tasks' = [tk1 EXCEPT ![new] = NewTask("transcript", cid, ci, "gpt", user_input, ci)]
            /\ trig' = Heard("accepted")

\* else branch: cancel the timer, create_task(delayed_process())
ArmTimer(cid, ci, c1) ==
    LET tk1 == CancelTask(tasks, c1.gpt_timer)
        new == FreeSlot
    IN /\ new # 0
       /\ calls' = [calls EXCEPT ![ci] = [c1 EXCEPT !.gpt_timer = new]]
       /\ tasks' = [tk1 EXCEPT ![new] = NewTask("timer", cid, ci, "sleep", <<>>, 0)]
       /\ trig' = trig

\* a faulty filter: interim text is buffered like final text
BuffersInterim(is_final, frag) == frag # <<>>

\* if is_final and transcript.strip()
Buffers(is_final, frag) == is_final /\ frag # <<>>

\* budget: how many transcript events the model lets registered sessions handle
Handle(cid, raw, is_final, speech_final, budget) ==
    /\ cid \in stt_streams
    /\ UNCHANGED <<rms, media, active_calls, stt_streams, conn, gpt_enabled, tts_enabled, stt_enabled>>
    /\ LET ci == active_calls[cid] IN
       IF ci = 0 THEN
            /\ UNCHANGED <<calls, tasks, trig, events>>
       ELSE
            /\ events < budget
            /\ events' = events + 1
            /\ LET frag == Strip(raw)
                   c0 == [calls[ci] EXCEPT !.transcription_count = @ + 1]
                   c1 == [c0 EXCEPT !.conversation_buffer = Append(@, frag),
                                    !.buffer_handed = Append(@, FALSE)]
               IN IF ~Buffers(is_final, frag) THEN
                       /\ calls' = [calls EXCEPT ![ci] = c0]
                       /\ UNCHANGED <<tasks, trig>>
                  ELSE IF speech_final THEN EosFlush(cid, ci, c1)
                  ELSE ArmTimer(cid, ci, c1)

HandleTranscript(cid, raw, is_final, speech_final) ==
    Handle(cid, raw, is_final, speech_final, MaxTranscripts)

\* ------------------------------------------------ delayed_process
\* asyncio.sleep(1.5) is over: the timer task is ready to resume
TimerElapse(t) ==
    /\ tasks[t].kind = "timer" /\ tasks[t].pc = "sleep" /\ MayResume(tasks[t])
    /\ tasks' = [tasks EXCEPT ![t].pc = "elapsed"]
    /\ UNCHANGED <<rms, media, active_calls, calls, stt_streams, conn,
                   gpt_enabled, tts_enabled, stt_enabled, trig, events>>

\* a faulty check: the timer flushes whatever the buffer holds, even nothing
TimerIgnoresEmptyBuffer(tgt, c) == tgt # 0

\* a faulty check: the timer does not look at the registry again
TimerIgnoresRegistry(tgt, c) == c.conversation_buffer # <<>>

\* if call_sid in self.active_calls and call_info["conversation_buffer"]
TimerHasWork(tgt, c) == tgt # 0 /\ c.conversation_buffer # <<>>

\* the body after the sleep, up to the await inside _process_with_gpt
TimerRun(t) ==
    /\ tasks[t].kind = "timer" /\ tasks[t].pc = "elapsed" /\ MayResume(tasks[t])
    /\ UNCHANGED <<rms, media, active_calls, stt_streams, conn,
                   gpt_enabled, tts_enabled, stt_enabled, events>>
    /\ LET cid == tasks[t].call_sid
           ci == tasks[t].call_info
           c == calls[ci]
           user_input == Join(c.conversation_buffer)
           out == Guard(c, user_input)
           tgt == active_calls[cid]
           Flushed(o) == Record(trig, ci, user_input, o, "timer", tasks[t].must_cancel,
                                c.transcription_count)
       IN IF ~TimerHasWork(tgt, c) THEN
               End(calls, t)
          ELSE IF out # "accepted" THEN
               EndWith([calls EXCEPT ![ci] = Reject(c)], t, Flushed(out))
          ELSE IF ~gpt_enabled THEN
               EndWith([calls EXCEPT ![ci] = ClearBuffer(MarkHanded(c))], t, Flushed("no_engine"))
          ELSE
               /\ calls' = ProcessStart([calls EXCEPT ![ci] = MarkHanded(c)], tgt, user_input)
               /\ tasks' = [tasks EXCEPT ![t].pc = "gpt", ![t].user_input = user_input,
                                         ![t].target = tgt]
               /\ trig' = Flushed("accepted")

\* a cancelled task is resumed with CancelledError: it is not caught by the
\* "except Exception" clauses, runs the finally of _process_with_gpt when
\* raised inside it, and ends in delayed_process's "except CancelledError"
TaskCancelled(t) ==
    /\ tasks[t].pc # "free" /\ ~MayResume(tasks[t])
    /\ End(IF tasks[t].pc \in {"gpt", "tts", "pace"}
           THEN ReleaseLock(calls, tasks[t].target) ELSE calls, t)
    /\ UNCHANGED <<rms, media, active_calls, stt_streams, conn,
                   gpt_enabled, tts_enabled, stt_enabled, events>>

\* ------------------------------------------------ _process_with_gpt
\* gpt_service.get_response returned: count, history, then _send_audio_response
\* a faulty check: synthesis is attempted although the engine is disabled
SpeaksAlways(cid) == active_calls[cid] # 0

\* _send_audio_response goes past its two early returns: the synthesis engine
\* is enabled and the call is still registered
Speaks(cid) == tts_enabled /\ active_calls[cid] # 0

GptReturn(t, reply) ==
    /\ tasks[t].pc = "gpt" /\ MayResume(tasks[t])
    /\ LET tgt == tasks[t].target
           said == << [role |-> "user", content |-> tasks[t].user_input],
                      [role |-> "assistant", content |-> reply] >>
           c1 == [calls EXCEPT
                    ![tgt].gpt_response_count = @ + 1,
                    ![tgt].turns = Append(@, said),
                    ![tgt].conversation_history =
                        TrimHistory(@ \o said)]
       IN IF Speaks(tasks[t].call_sid) THEN
               /\ calls' = c1
               /\ tasks' = [tasks EXCEPT ![t].pc = "tts"]
               /\ trig' = trig
          ELSE
               End(Finish(c1, tasks[t]), t)
    /\ UNCHANGED <<rms, media, active_calls, stt_streams, conn,
                   gpt_enabled, tts_enabled, stt_enabled, events>>

\* _send_audio_response ended (played, or failed and logged)
TtsDone(t) ==
    /\ tasks[t].pc = "tts" /\ MayResume(tasks[t])
    /\ End(Finish(calls, tasks[t]), t)
    /\ UNCHANGED <<rms, media, active_calls, stt_streams, conn,
                   gpt_enabled, tts_enabled, stt_enabled, events>>

\* get_response caught an exception of the engine call and returned its
\* apology: _process_with_gpt goes on as with any other reply
GptFail(t) == GptReturn(t, Apology)

\* _send_audio_response caught an exception of synthesis or of the websocket:
\* it logs and returns, and _process_with_gpt goes on as after playback
TtsRaise(t) == TtsDone(t)

\* ------------------------------------------------ specification
TaskIds == 1..MaxTasks

Next ==
    \/ \E cid \in OneCall : Connect(cid)
    \/ \E cid \in OneCall, ok \in BOOLEAN : StreamStart(cid, ok)
    \/ \E cid \in OneCall, ok \in BOOLEAN : StreamStop(cid, ok)
    \/ \E cid \in OneCall, ok \in BOOLEAN : Cleanup(cid, ok)
    \/ \E cid \in OneCall, raw \in RawTranscripts, f \in BOOLEAN, e \in BOOLEAN :
            HandleTranscript(cid, raw, f, e)
    \/ \E t \in TaskIds : TimerElapse(t)
    \/ \E t \in TaskIds : TimerRun(t)
    \/ \E t \in TaskIds : TaskCancelled(t)
    \/ \E t \in TaskIds, r \in Replies : GptReturn(t, r)
    \/ \E t \in TaskIds : TtsDone(t)

Spec == Init /\ [][Next]_vars

\* ------------------------------------------------ fair scheduling
\* The event loop resumes every ready task, the engines answer, and a
\* sleeping timer's delay passes; the transport and the transcription
\* engine (route events, transcript events) owe nothing.
Fairness ==
    /\ \A t \in TaskIds : WF_vars(TimerElapse(t))
    /\ \A t \in TaskIds : WF_vars(TimerRun(t))
    /\ \A t \in TaskIds : WF_vars(TaskCancelled(t))
    /\ \A t \in TaskIds : WF_vars(\E r \in Replies : GptReturn(t, r))
    /\ \A t \in TaskIds : WF_vars(TtsDone(t))

FairSpec == Spec /\ Fairness

\* ------------------------------------------------ whole turns
\* Long conversations: every utterance arrives as one final end-of-speech
\* transcript (no debounce timers), the engines are configured and may fail.
Utterances == {<<"hello">>, <<"world">>}

Utterance(cid, raw) == Handle(cid, raw, TRUE, TRUE, MaxTurns)

TurnInit == Init /\ gpt_enabled /\ stt_enabled

TurnNext ==
    \/ \E cid \in OneCall : Connect(cid)
    \/ \E cid \in OneCall, ok \in BOOLEAN : StreamStart(cid, ok)
    \/ \E cid \in OneCall, raw \in Utterances : Utterance(cid, raw)
    \/ \E t \in TaskIds, r \in Replies : GptReturn(t, r)
    \/ \E t \in TaskIds : GptFail(t)
    \/ \E t \in TaskIds : TtsDone(t)
    \/ \E t \in TaskIds : TtsRaise(t)

TurnSpec == TurnInit /\ [][TurnNext]_vars

\* ------------------------------------------------ one stream per connection
\* The transport sends "start" once per connection, before anything else:
\* here a session leaves the registry only by cleanup_call.
StartOnce(cid, ok) == active_calls[cid] = 0 /\ StreamStart(cid, ok)

LifeNext ==
    \/ \E cid \in OneCall : Connect(cid)
    \/ \E cid \in OneCall, ok \in BOOLEAN : StartOnce(cid, ok)
    \/ \E cid \in OneCall, ok \in BOOLEAN : StreamStop(cid, ok)
    \/ \E cid \in OneCall, ok \in BOOLEAN : Cleanup(cid, ok)
    \/ \E cid \in OneCall, raw \in RawTranscripts, f \in BOOLEAN, e \in BOOLEAN :
            HandleTranscript(cid, raw, f, e)
    \/ \E t \in TaskIds : TimerElapse(t)
    \/ \E t \in TaskIds : TimerRun(t)
    \/ \E t \in TaskIds : TaskCancelled(t)
    \/ \E t \in TaskIds, r \in Replies : GptReturn(t, r)
    \/ \E t \in TaskIds : TtsDone(t)

LifeSpec == Init /\ [][LifeNext]_vars

\* ------------------------------------------------ events for unknown calls
\* a media frame that arrives on a connection before its "start" event
StrayMedia(cid, payload, ok) == active_calls[cid] = 0 /\ MediaEvent(cid, payload, ok)

StrayTranscript(cid, raw, is_final, speech_final) ==
    Handle(cid, raw, is_final, speech_final, MaxStray)

StrayNext ==
    \/ \E cid \in OneCall : Connect(cid)
    \/ \E cid \in OneCall, ok \in BOOLEAN : StartOnce(cid, ok)
    \/ \E cid \in OneCall, payload \in Payloads, ok \in BOOLEAN : StrayMedia(cid, payload, ok)
    \/ \E cid \in OneCall, ok \in BOOLEAN : StreamStop(cid, ok)
    \/ \E cid \in OneCall, ok \in BOOLEAN : Cleanup(cid, ok)
    \/ \E cid \in OneCall, raw \in RawTranscripts, f \in BOOLEAN, e \in BOOLEAN :
            StrayTranscript(cid, raw, f, e)
    \/ \E t \in TaskIds : TimerElapse(t)
    \/ \E t \in TaskIds : TimerRun(t)
    \/ \E t \in TaskIds : TaskCancelled(t)
    \/ \E t \in TaskIds, r \in Replies : GptReturn(t, r)
    \/ \E t \in TaskIds : TtsDone(t)

StraySpec == Init /\ [][StrayNext]_vars

\* ------------------------------------------------ two calls at once
\* Two call IDs, each with its own connection, stream, transcripts, timers
\* and turns; all engines configured and the streams start, the generation
\* engine may fail, a connection ends by disconnecting.
PairPayloads == { <<"/", "w", "=", "=">>, <<"/", "w">> }
PairTexts == { <<"hello">> }

PairMedia(cid, payload, ok) ==
    /\ \A c \in CallIds : media[c].received < MaxPairFrames
    /\ MediaEvent(cid, payload, ok)

PairTranscript(cid, raw, is_final, speech_final) ==
    Handle(cid, raw, is_final, speech_final, MaxStray)

PairInit == Init /\ gpt_enabled /\ tts_enabled /\ stt_enabled

PairNext ==
    \/ \E cid \in CallIds : Connect(cid)
    \/ \E cid \in CallIds : StartOnce(cid, TRUE)
    \/ \E cid \in CallIds, payload \in PairPayloads : PairMedia(cid, payload, TRUE)
    \/ \E cid \in CallIds, ok \in BOOLEAN : Cleanup(cid, ok)
    \/ \E cid \in CallIds, raw \in PairTexts, f \in BOOLEAN, e \in BOOLEAN :
            PairTranscript(cid, raw, f, e)
    \/ \E t \in TaskIds : TimerElapse(t)
    \/ \E t \in TaskIds : TimerRun(t)
    \/ \E t \in TaskIds : TaskCancelled(t)
    \/ \E t \in TaskIds, r \in Replies : GptReturn(t, r)
    \/ \E t \in TaskIds : GptFail(t)
    \/ \E t \in TaskIds : TtsDone(t)

PairSpec == PairInit /\ [][PairNext]_vars

\* ------------------------------------------------ malformed frames
\* a text frame that is not a JSON object: json.loads (or message.get) raises
\* inside the receive loop, "except Exception" outside the loop logs it, and
\* the finally block runs cleanup_call
MalformedFrame(cid, ok) == conn[cid] = "open" /\ Cleanup(cid, ok)

\* A frame with an unknown event type only logs a warning: a step that
\* changes nothing, which every behaviour admits.
ProtocolNext ==
    \/ \E cid \in OneCall : Connect(cid)
    \/ \E cid \in OneCall, ok \in BOOLEAN : StreamStart(cid, ok)
    \/ \E cid \in OneCall, payload \in Payloads, ok \in BOOLEAN : MediaEvent(cid, payload, ok)
    \/ \E cid \in OneCall, ok \in BOOLEAN : MalformedFrame(cid, ok)
    \/ \E cid \in OneCall, ok \in BOOLEAN : StreamStop(cid, ok)
    \/ \E cid \in OneCall, ok \in BOOLEAN : Cleanup(cid, ok)

ProtocolSpec == Init /\ [][ProtocolNext]_vars

\* ------------------------------------------------ audio ingestion
\* The websocket route alone: connections, stream start and stop, media
\* frames, cleanup; no transcript is delivered.
MediaNext ==
    \/ \E cid \in OneCall : Connect(cid)
    \/ \E cid \in OneCall, ok \in BOOLEAN : StreamStart(cid, ok)
    \/ \E cid \in OneCall, payload \in Payloads, ok \in BOOLEAN : MediaEvent(cid, payload, ok)
    \/ \E cid \in OneCall, ok \in BOOLEAN : StreamStop(cid, ok)
    \/ \E cid \in OneCall, ok \in BOOLEAN : Cleanup(cid, ok)

MediaSpec == Init /\ [][MediaNext]_vars

\* ------------------------------------------------ vocabulary of the claims
Sessions == DOMAIN calls
Registered(s) == \E c \in CallIds : active_calls[c] = s

\* the response-generation cycles running on session dict s: tasks between
\* the lock assignment of _process_with_gpt and its finally block
InFlight(s) == {t \in TaskIds : tasks[t].pc \in {"gpt", "tts"} /\ tasks[t].target = s}

\* debounce timer tasks of a call ID that are neither cancelled nor finished
LiveTimers(cid) ==
    {t \in TaskIds : tasks[t].kind = "timer" /\ tasks[t].pc # "free"
                     /\ tasks[t].call_sid = cid /\ ~tasks[t].must_cancel}

\* C1: at most one response-generation cycle is in flight per session at any
\* instant.
C1_OneGenerationInFlight ==
    \A s \in Sessions : Cardinality(InFlight(s)) <= 1

\* C4: a clear of the utterance buffer removes only fragments that were part
\* of the text passed to _process_with_gpt (no fragment is discarded unprocessed).
C4_ClearOnlyHandedFragments ==
    \A s \in Sessions : ~calls[s].dropped

\* C9: each call ID has at most one live (not cancelled, not finished)
\* debounce timer task at every instant.
C9_OneLiveTimerPerCall ==
    \A cid \in CallIds : Cardinality(LiveTimers(cid)) <= 1

\* the flush triggers recorded for session dict s
Triggers(s) == {trig[s][i] : i \in DOMAIN trig[s]}
LastTrigger(tr, s) == tr[s][Len(tr[s])]

\* a step of the end-of-speech branch of _handle_transcript for a registered call
EosEvent(cid, raw) ==
    /\ active_calls[cid] # 0
    /\ Strip(raw) # <<>>
    /\ HandleTranscript(cid, raw, TRUE, TRUE)

\* a step in which the debounce timer t fires on a non-empty buffer
TimerFlush(t) ==
    /\ tasks[t].kind = "timer" /\ tasks[t].pc = "elapsed"
    /\ active_calls[tasks[t].call_sid] # 0
    /\ calls[tasks[t].call_info].conversation_buffer # <<>>
    /\ TimerRun(t)

\* the step rejected a trigger of session s as already in progress
RejectedInProgress(s) ==
    /\ LastTrigger(trig', s).out = "in_progress"
    /\ calls'[s].duplicate_prevention_count = calls[s].duplicate_prevention_count + 1
    /\ calls'[s].conversation_history = calls[s].conversation_history
    /\ calls'[s].last_processed_text = calls[s].last_processed_text
    /\ \A t \in TaskIds : tasks'[t].pc = "gpt" => tasks[t].pc = "gpt"

\* C2: while a generation is in flight for a session, every flush trigger of
\* that session is rejected as already in progress: no engine call, history
\* and last-processed text unchanged, duplicate counter plus one.
C2_TriggerWhileInFlightRejected ==
    [][ /\ \A cid \in CallIds, raw \in RawTranscripts :
              (EosEvent(cid, raw) /\ InFlight(active_calls[cid]) # {})
                  => RejectedInProgress(active_calls[cid])
        /\ \A t \in TaskIds :
              (TimerFlush(t) /\ InFlight(tasks[t].call_info) # {})
                  => RejectedInProgress(tasks[t].call_info) ]_vars

\* C3: two successive flush triggers of a session with identical text lead to
\* exactly one engine call: one of them is accepted and the other is rejected
\* (counted once as a suppressed duplicate).
C3_SameTextOneEngineCall ==
    gpt_enabled =>
        \A s \in Sessions :
            (Len(trig[s]) = 2 /\ trig[s][1].text = trig[s][2].text) =>
                \E i, j \in {1, 2} :
                    /\ i # j
                    /\ trig[s][i].out = "accepted"
                    /\ trig[s][j].out \in {"in_progress", "duplicate"}

\* debounce timers of session dict s still waiting to fire
PendingTimers(tk, s) ==
    {t \in TaskIds : tk[t].kind = "timer" /\ tk[t].call_info = s
                     /\ tk[t].pc \in {"sleep", "elapsed"} /\ ~tk[t].must_cancel}

\* session s holds a final non-empty fragment that was never part of a text
\* passed to _process_with_gpt
Unhanded(s) ==
    \E i \in 1..Len(calls[s].buffer_handed) : ~calls[s].buffer_handed[i]

\* C5: an utterance is never lost: while the session stays registered, every
\* final non-empty fragment appended to the buffer is eventually part of a
\* text handed to response generation (and no clear discards it before).
C5_NoUtteranceLost ==
    \A s \in 1..MaxSessions :
        (s \in Sessions /\ Registered(s) /\ Unhanded(s))
            ~> (s \in Sessions
                /\ (~Registered(s) \/ (~Unhanded(s) /\ ~calls[s].dropped)))

\* the state after final fragments "hello" and "world", neither with end of
\* speech, reached an idle session (nothing flushed or processed before,
\* nothing left running from an earlier session of the call), with the
\* generation engine configured
HelloWorldHeard(s) ==
    /\ Registered(s) /\ gpt_enabled
    /\ calls[s].transcription_count = 2
    /\ calls[s].conversation_buffer = << <<"hello">>, <<"world">> >>
    /\ trig[s] = <<>>
    /\ ~calls[s].processing_lock /\ calls[s].last_processed_text = <<>>
    /\ \A t \in TaskIds : tasks[t].pc # "free" => tasks[t].call_info = s

\* the flush of "hello world" by a debounce timer after the second event
HelloWorldFlush ==
    [text |-> <<"hello", SP, "world">>, out |-> "accepted", src |-> "timer",
     stale |-> FALSE, n |-> 2]

\* a step from the state HelloWorldHeard: only the timer armed by "world" waits
\* (the one armed by "hello" is cancelled), and a flush without a further
\* event is that timer's, calling the engine with "hello world"; once flushed,
\* nothing is left that could flush again
DebounceStep ==
        \A s \in Sessions :
          /\ HelloWorldHeard(s) =>
                /\ PendingTimers(tasks, s) = {calls[s].gpt_timer}
                /\ InFlight(s) = {}
                /\ (trig'[s] # <<>> /\ calls'[s].transcription_count = 2) =>
                      /\ TimerRun(calls[s].gpt_timer)
                      /\ trig'[s] = <<HelloWorldFlush>>
                      /\ tasks'[calls[s].gpt_timer].pc = "gpt"
                      /\ tasks'[calls[s].gpt_timer].user_input = <<"hello", SP, "world">>
                      /\ InFlight(s)' = {calls[s].gpt_timer}
                      /\ PendingTimers(tasks', s) = {}
          /\ (calls[s].transcription_count = 2 /\ trig[s] # <<>>
                  /\ trig[s][1] = HelloWorldFlush) =>
                /\ Len(trig[s]) = 1
                /\ PendingTimers(tasks, s) = {}

\* C6: after "hello" then "world" (final, no end of speech) on an idle session
\* and no further event, the engine is called exactly once, with
\* "hello world", by the timer armed by "world" and not before it fires; the
\* timer armed by "hello" never flushes.
C6_DebounceFlushesOnce ==
    /\ [][DebounceStep]_vars
    /\ \A s \in 1..MaxSessions :
          (s \in Sessions /\ HelloWorldHeard(s))
              ~> (s \in Sessions
                  /\ (\/ trig[s] = <<HelloWorldFlush>>
                      \/ ~Registered(s)
                      \/ calls[s].transcription_count # 2))

\* the engine is running on "hello world", called by the second timer
C6_Witness ==
    \E s \in Sessions : \E t \in TaskIds :
        /\ trig[s] = <<HelloWorldFlush>>
        /\ calls[s].transcription_count = 2
        /\ tasks[t].kind = "timer" /\ tasks[t].pc = "gpt" /\ tasks[t].target = s
        /\ tasks[t].user_input = <<"hello", SP, "world">>

\* C7: an end-of-speech final fragment is flushed in the handler step itself
\* (the joined buffer reaches the guard without any timer), and every timer
\* still waiting for that buffer is cancelled and never flushes.
C7_EosFlushesAtOnce ==
    [][ \A cid \in CallIds, raw \in RawTranscripts :
            EosEvent(cid, raw) =>
                LET s == active_calls[cid] IN
                /\ trig'[s] # <<>>
                /\ LastTrigger(trig', s).src = "eos"
                /\ LastTrigger(trig', s).text =
                       Join(Append(calls[s].conversation_buffer, Strip(raw)))
                /\ LastTrigger(trig', s).n = calls'[s].transcription_count
                /\ PendingTimers(tasks', s) = {}
                /\ \A x \in Sessions : \A e \in Triggers(x)' : ~e.stale ]_vars

\* an end-of-speech fragment flushed "hello world" while the timer armed by
\* "hello" was still waiting: that timer is now cancelled
C7_Witness ==
    \E s \in Sessions :
        /\ trig[s] # <<>>
        /\ LastTrigger(trig, s).src = "eos"
        /\ LastTrigger(trig, s).text = <<"hello", SP, "world">>
        /\ \E t \in TaskIds :
              /\ tasks[t].kind = "timer" /\ tasks[t].call_info = s
              /\ tasks[t].pc \in {"sleep", "elapsed"} /\ tasks[t].must_cancel

\* the end-of-speech handler for session s returned in this step: at once when
\* the guard rejected (or the engine is off), else when its _process_with_gpt ended
EosHandled(s) ==
    \/ \E cid \in CallIds, raw \in RawTranscripts :
          /\ EosEvent(cid, raw) /\ active_calls[cid] = s
          /\ LastTrigger(trig', s).out # "accepted"
    \/ \E t \in TaskIds :
          /\ tasks[t].kind = "transcript" /\ tasks[t].call_info = s
          /\ tasks[t].pc # "free" /\ tasks'[t].pc = "free"

\* C8: once an end-of-speech final event has been handled the session is Idle:
\* empty utterance buffer, no debounce timer pending.
C8_IdleAfterEos ==
    [][ \A s \in Sessions :
            EosHandled(s) =>
                /\ calls'[s].conversation_buffer = <<>>
                /\ PendingTimers(tasks', s) = {} ]_vars

\* C10: a cancelled debounce timer never hands text to the guard.
C10_CancelledTimerNeverFlushes ==
    \A s \in Sessions : \A e \in Triggers(s) : e.src = "timer" => ~e.stale

\* a timer cancelled after its delay had elapsed, before its body ran
C10_Witness ==
    \E t \in TaskIds :
        tasks[t].kind = "timer" /\ tasks[t].pc = "elapsed" /\ tasks[t].must_cancel

\* nothing is left in the buffer of session dict s for a timer to flush: it is
\* empty, or all it holds was already flushed by a newer trigger
NothingToFlush(s) ==
    \/ calls[s].conversation_buffer = <<>>
    \/ \A i \in 1..Len(calls[s].buffer_handed) : calls[s].buffer_handed[i]

\* the step left every session dict still in use as it was (but for the timer
\* handle, which now names a finished task) and started no engine call
SessionsUntouched(t) ==
    /\ tasks' = EndTask(tasks, t)
    /\ \A s \in Sessions :
          Live(s, active_calls, tasks') =>
              /\ calls'[s] = [calls[s] EXCEPT !.gpt_timer = calls'[s].gpt_timer]
              /\ trig'[s] = trig[s]

\* C11: a debounce timer that fires when its buffer is empty, or holds only
\* what a newer flush already handed on, is a no-op: no engine call, no
\* counter, flag, history or buffer of any session changes.
C11_IdleTimerIsNoop ==
    [][ \A t \in TaskIds :
            (/\ tasks[t].kind = "timer" /\ tasks[t].pc = "elapsed"
             /\ NothingToFlush(tasks[t].call_info)
             /\ TimerRun(t))
                => SessionsUntouched(t) ]_vars

\* a timer about to fire, uncancelled, for a registered call whose buffer was
\* emptied after the timer was armed
C11_Witness ==
    \E t \in TaskIds :
        /\ tasks[t].kind = "timer" /\ tasks[t].pc = "elapsed" /\ ~tasks[t].must_cancel
        /\ active_calls[tasks[t].call_sid] = tasks[t].call_info
        /\ calls[tasks[t].call_info].conversation_buffer = <<>>
        /\ calls[tasks[t].call_info].transcription_count > 0

\* C12: the in-progress flag of a session is set exactly while a turn runs on
\* it: set on acceptance, cleared on every exit of the turn and not before
\* generation and synthesis of that turn have ended.
C12_LockHeldForTheTurn ==
    \A s \in Sessions : calls[s].processing_lock <=> InFlight(s) # {}

\* the step rejected a trigger of session s as a duplicate of the last text
RejectedDuplicate(s) ==
    /\ calls'[s].duplicate_prevention_count = calls[s].duplicate_prevention_count + 1
    /\ trig'[s] # <<>>
    /\ LastTrigger(trig', s).out = "duplicate"

\* the latest exchange of session s came from a turn whose generation succeeded
LastTurnCompleted(s, text) ==
    LET tn == calls[s].turns IN
    /\ tn # <<>>
    /\ tn[Len(tn)][1].content = text
    /\ tn[Len(tn)][2].content # Apology

\* C13: a trigger is rejected as a duplicate only of the text of the most
\* recent turn that completed; a turn that failed or was cancelled does not
\* make a later trigger with the same text a duplicate.
C13_DuplicateOnlyOfCompletedTurn ==
    [][ \A s \in Sessions :
            RejectedDuplicate(s) => LastTurnCompleted(s, LastTrigger(trig', s).text) ]_vars

\* the step started an engine call on the joined buffer of session dict s
EngineCalled(s) ==
    \E t \in TaskIds :
        tasks'[t].pc = "gpt" /\ tasks[t].pc # "gpt" /\ tasks'[t].call_info = s

\* C14: no final fragment is part of the text of two engine calls: when the
\* engine is called on a session's buffer, nothing in that buffer was already
\* part of the text of an earlier engine call.
C14_FragmentHandedOnce ==
    [][ \A s \in Sessions :
            EngineCalled(s) =>
                \A i \in 1..Len(calls[s].buffer_handed) : ~calls[s].buffer_handed[i] ]_vars

\* C15: a session's conversation history never has more than 10 entries
\* (so neither has the history handed to the engine with a call), their
\* number is even, and they alternate user, assistant.
C15_HistoryBounded ==
    \A s \in Sessions :
        LET h == calls[s].conversation_history IN
        /\ Len(h) <= HistoryCap
        /\ Len(h) % 2 = 0
        /\ \A i \in 1..Len(h) : h[i].role = IF i % 2 = 1 THEN "user" ELSE "assistant"

\* a session whose history is full and was trimmed at least once
C15_Witness ==
    \E s \in Sessions :
        /\ Len(calls[s].conversation_history) = HistoryCap
        /\ 2 * Len(calls[s].turns) > HistoryCap

\* the entries of the last k exchanges, oldest first
RECURSIVE Entries(_)
Entries(tn) == IF tn = <<>> THEN <<>> ELSE Head(tn) \o Entries(Tail(tn))
LastTurns(tn, k) == IF Len(tn) > k THEN SubSeq(tn, Len(tn) - k + 1, Len(tn)) ELSE tn

\* C16: after n turns whose generation returned, the stored history is exactly
\* the user/assistant pairs of the last min(n, 5) turns, oldest first.
C16_HistoryIsLastFiveTurns ==
    \A s \in Sessions :
        /\ Len(calls[s].turns) = calls[s].gpt_response_count
        /\ calls[s].conversation_history =
               Entries(LastTurns(calls[s].turns, HistoryCap \div 2))

\* six exchanges: ten entries, the first of them the user text of exchange 2,
\* which differs from that of exchange 1
C16_Witness ==
    \E s \in Sessions :
        /\ Len(calls[s].turns) = 6
        /\ Len(calls[s].conversation_history) = HistoryCap
        /\ calls[s].conversation_history[1] = calls[s].turns[2][1]
        /\ calls[s].turns[1][1] # calls[s].turns[2][1]

\* the latest exchange of session s is the apology of a failed engine call
LastTurnFailed(s) ==
    /\ calls[s].turns # <<>>
    /\ calls[s].turns[Len(calls[s].turns)][2].content = Apology

\* the failing stage of the turn run by task t is over: the registry is as it
\* was, and the turn either goes on to speak the apology or ends with the
\* flag cleared and its handler finishing as after any turn (buffer cleared)
TurnSurvivesFailure(t) ==
    /\ active_calls' = active_calls
    /\ \/ tasks'[t].pc = "tts"
       \/ /\ tasks'[t].pc = "free"
          /\ ~calls'[tasks[t].target].processing_lock
          /\ calls'[tasks[t].call_info].conversation_buffer = <<>>

\* C17: when the generation engine or the synthesis stage raises, only that
\* turn ends: the session stays registered, its in-progress flag is cleared
\* when the turn ends, the handler is not aborted, and the next utterance
\* with a different text is accepted and sent to the engine.
C17_FailureEndsOnlyTheTurn ==
    [][ /\ \A t \in TaskIds : (GptFail(t) \/ TtsRaise(t)) => TurnSurvivesFailure(t)
        /\ \A cid \in CallIds, raw \in Utterances :
              LET s == active_calls[cid]
                  text == Join(Append(calls[s].conversation_buffer, Strip(raw)))
              IN (/\ s # 0
                  /\ LastTurnFailed(s) /\ InFlight(s) = {}
                  /\ calls[s].last_processed_text # <<text>>
                  /\ Utterance(cid, raw))
                     => /\ EngineCalled(s)
                        /\ \E t \in TaskIds : tasks'[t].pc = "gpt" /\ tasks'[t].target = s
                                               /\ tasks'[t].user_input = text ]_vars

\* the engine failed on one utterance and is now running on the next one
C17_Witness ==
    \E s \in Sessions : \E t \in TaskIds :
        /\ LastTurnFailed(s) /\ Registered(s)
        /\ tasks[t].pc = "gpt" /\ tasks[t].target = s
        /\ tasks[t].user_input # calls[s].turns[Len(calls[s].turns)][1].content

\* no flush of session s has changed what a turn changes
NoTurnYet(s) ==
    /\ ~calls[s].processing_lock
    /\ calls[s].last_processed_text = NewCallInfo.last_processed_text
    /\ calls[s].conversation_history = <<>>
    /\ calls[s].gpt_response_count = 0

\* the reply of the turn run by task t is stored and the turn ends at once
RepliesSilently(t, reply) ==
    LET tgt == tasks[t].target
        said == << [role |-> "user", content |-> tasks[t].user_input],
                   [role |-> "assistant", content |-> reply] >>
    IN /\ tasks'[t].pc = "free"
       /\ ~calls'[tgt].processing_lock
       /\ Live(tgt, active_calls, tasks') =>
             /\ calls'[tgt].conversation_history =
                    TrimHistory(calls[tgt].conversation_history \o said)
             /\ calls'[tgt].gpt_response_count = calls[tgt].gpt_response_count + 1

\* C18: with the generation engine disabled a flush calls no engine and
\* leaves the in-progress flag, the last-processed text, the history and the
\* response counter as they were; with only the synthesis engine disabled a
\* turn still stores the reply in the history, sends no audio and releases
\* the flag. Neither case ends the handler abnormally.
C18_DisabledEnginesSkipQuietly ==
    /\ [](~gpt_enabled =>
            /\ \A s \in Sessions : NoTurnYet(s)
            /\ \A t \in TaskIds : tasks[t].pc \notin {"gpt", "tts"})
    /\ [](~tts_enabled => \A t \in TaskIds : tasks[t].pc # "tts")
    /\ [][ \A t \in TaskIds : \A reply \in Replies :
              (~tts_enabled /\ GptReturn(t, reply)) => RepliesSilently(t, reply) ]_vars

\* synthesis is disabled and a turn of a registered session has completed
C18_Witness ==
    /\ gpt_enabled /\ ~tts_enabled
    /\ \E s \in Sessions :
          /\ Registered(s) /\ ~calls[s].processing_lock
          /\ calls[s].gpt_response_count > 0
          /\ Len(calls[s].conversation_history) = 2

\* generation is disabled and a flush of a registered session went through
\* both guards
C18_SkippedFlush ==
    /\ ~gpt_enabled
    /\ \E s \in Sessions :
          /\ Registered(s)
          /\ \E i \in 1..Len(trig[s]) : trig[s][i].out = "no_engine"

\* the frame of this media event is counted: one more frame, and as many more
\* bytes as the payload decodes to
FrameCounted(cid, payload) ==
    LET s == active_calls[cid]
    IN /\ calls'[s].audio_chunks = calls[s].audio_chunks + 1
       /\ calls'[s].bytes_received =
             calls[s].bytes_received + Len(b64decode(payload).bytes)

\* the PCM chunks of the frames that were forwarded, in arrival order
RECURSIVE PcmOfForwarded(_)
PcmOfForwarded(frames) ==
    IF frames = <<>> THEN <<>>
    ELSE (IF Head(frames).fwd THEN <<ulaw_decode(Head(frames).data)>> ELSE <<>>)
         \o PcmOfForwarded(Tail(frames))

\* what the engine received is the forwarded frames in arrival order, nothing
\* when it is disabled; a media event leaves the route's loop running and
\* the registry as it was
ForwardedInOrder ==
    /\ [](\A cid \in CallIds : media[cid].sent = PcmOfForwarded(media[cid].frames))
    /\ [](~stt_enabled => \A cid \in CallIds : media[cid].sent = <<>>)
    /\ [][ \A cid \in CallIds, payload \in Payloads, ok \in BOOLEAN :
              MediaEvent(cid, payload, ok) =>
                 /\ conn' = conn /\ active_calls' = active_calls
                 /\ ~stt_enabled => media'[cid].frames =
                        IF active_calls[cid] # 0 /\ payload # <<>> /\ b64decode(payload).ok
                        THEN Append(media[cid].frames,
                                    [data |-> b64decode(payload).bytes, fwd |-> FALSE])
                        ELSE media[cid].frames ]_vars

\* C19 (as stated): every media frame for a registered session increments
\* the frame counter by one and the byte counter by the decoded payload
\* length; frames reach the transcription engine in arrival order; with the
\* engine disabled frames are counted and nothing is forwarded; handle_media
\* never raises.
C19_EveryFrameCounted ==
    /\ [][ \A cid \in CallIds, payload \in Payloads, ok \in BOOLEAN :
              (active_calls[cid] # 0 /\ MediaEvent(cid, payload, ok))
                 => FrameCounted(cid, payload) ]_vars
    /\ ForwardedInOrder

\* C19 (amended): every media frame for a registered session whose payload
\* is present and decodes increments the frame counter by one and the byte
\* counter by the decoded payload length, and any other frame changes no
\* counter; frames reach the transcription engine in arrival order; with the
\* engine disabled frames are counted and nothing is forwarded; handle_media
\* never raises.
C19_DecodableFramesCounted ==
    /\ [][ \A cid \in CallIds, payload \in Payloads, ok \in BOOLEAN :
              (active_calls[cid] # 0 /\ MediaEvent(cid, payload, ok))
                 => IF payload # <<>> /\ b64decode(payload).ok
                    THEN FrameCounted(cid, payload)
                    ELSE calls' = calls ]_vars
    /\ ForwardedInOrder

\* three frames arrived for a registered session: two different ones were
\* counted and forwarded, one was not counted
C19_Witness ==
    \E cid \in CallIds :
        /\ active_calls[cid] # 0
        /\ media[cid].received = 3
        /\ calls[active_calls[cid]].audio_chunks = 2
        /\ calls[active_calls[cid]].bytes_received = 3
        /\ Len(media[cid].sent) = 2
        /\ media[cid].sent[1] = <<132, 0>>
        /\ media[cid].sent[2] # media[cid].sent[1]

Destroyed(cid) ==
    /\ active_calls[cid] = 0
    /\ LiveTimers(cid) = {}
    /\ cid \notin stt_streams

\* C21: once the stop event has been handled, and after the transport
\* handler has ended by any path, the call ID is not in the registry, its
\* debounce timer is cancelled and no transcription stream remains for it.
C21_DestroyedOnStopOrTeardown ==
    \A cid \in CallIds : conn[cid] \in {"stopped", "closed"} => Destroyed(cid)

\* the same for the end of the transport handler alone
C21_DestroyedAfterHandlerEnds ==
    \A cid \in CallIds : conn[cid] = "closed" => Destroyed(cid)

\* a task working for session dict s goes on to synthesis and playback
PlaybackStarted(s) ==
    \E t \in TaskIds :
        tasks[t].pc = "gpt" /\ tasks[t].call_info = s /\ tasks'[t].pc = "tts"

\* C22: after a session has been torn down no orphaned response completes
\* for it: no engine call is started from its buffer, its pending debounce
\* timer does not flush, and a response in flight at teardown sends no audio.
C22_NoOrphanedResponse ==
    [][ \A s \in Sessions :
          ~Registered(s) => ~EngineCalled(s) /\ ~PlaybackStarted(s) ]_vars

\* no session appears, no engine call begins, and no session dict that can
\* still be reached changes (a finished timer's handle apart)
NothingHappens ==
    /\ active_calls' = active_calls
    /\ Len(calls') = Len(calls)
    /\ stt_streams' = stt_streams
    /\ \A t \in TaskIds : tasks'[t].pc \in {"gpt", "tts"} => tasks'[t] = tasks[t]
    /\ \A s \in Sessions :
          Live(s, active_calls, tasks') =>
              /\ calls'[s] = [calls[s] EXCEPT !.gpt_timer = calls'[s].gpt_timer]
              /\ trig'[s] = trig[s]

\* C23: a transcript event, media frame or timer firing whose call ID is not
\* in the registry performs no action: no session is created, no engine is
\* invoked and no session state or counter changes.
C23_UnknownCallIsIgnored ==
    [][ \A cid \in CallIds :
          active_calls[cid] = 0 =>
            /\ \A raw \in RawTranscripts, f \in BOOLEAN, e \in BOOLEAN :
                  StrayTranscript(cid, raw, f, e) => NothingHappens
            /\ \A payload \in Payloads, ok \in BOOLEAN :
                  MediaEvent(cid, payload, ok) =>
                      /\ NothingHappens
                      /\ media'[cid].frames = media[cid].frames
                      /\ media'[cid].sent = media[cid].sent
            /\ \A t \in TaskIds :
                  (tasks[t].kind = "timer" /\ tasks[t].pc = "elapsed"
                   /\ tasks[t].call_sid = cid /\ TimerRun(t)) => NothingHappens ]_vars

\* a debounce timer with a fragment in its buffer is about to fire for a call
\* ID that has been torn down, after a media frame arrived for it unregistered
C23_Witness ==
    \E t \in TaskIds :
        /\ tasks[t].kind = "timer" /\ tasks[t].pc = "elapsed" /\ ~tasks[t].must_cancel
        /\ active_calls[tasks[t].call_sid] = 0
        /\ calls[tasks[t].call_info].conversation_buffer # <<>>
        /\ media[tasks[t].call_sid].received > 0

\* this step is an event of call ID a: something its transport or its
\* transcription stream delivers, or a step of one of its tasks
EventOf(a) ==
    \/ Connect(a)
    \/ StartOnce(a, TRUE)
    \/ \E ok \in BOOLEAN : Cleanup(a, ok)
    \/ \E payload \in PairPayloads : PairMedia(a, payload, TRUE)
    \/ \E raw \in PairTexts, f \in BOOLEAN, e \in BOOLEAN : PairTranscript(a, raw, f, e)
    \/ \E t \in TaskIds :
          /\ tasks[t].pc # "free" /\ tasks[t].call_sid = a
          /\ \/ TimerElapse(t) \/ TimerRun(t) \/ TaskCancelled(t)
             \/ GptFail(t) \/ TtsDone(t)
             \/ \E r \in Replies : GptReturn(t, r)

\* the session dicts call ID b can reach: its registry entry and what its
\* tasks hold
Owned(b) ==
    {s \in Sessions :
        \/ active_calls[b] = s
        \/ \E t \in TaskIds : /\ tasks[t].pc # "free" /\ tasks[t].call_sid = b
                               /\ (tasks[t].call_info = s \/ tasks[t].target = s)}

\* everything of call ID b is as it was: registry entry, connection, stream,
\* counters, tasks, and every field of its session dicts
CallUntouched(b) ==
    /\ active_calls'[b] = active_calls[b]
    /\ conn'[b] = conn[b]
    /\ media'[b] = media[b]
    /\ (b \in stt_streams') = (b \in stt_streams)
    /\ \A t \in TaskIds : tasks[t].call_sid = b => tasks'[t] = tasks[t]
    /\ \A s \in Owned(b) : calls'[s] = calls[s] /\ trig'[s] = trig[s]

\* C24: sessions never share mutable state: an event of call A (media frame,
\* transcript event, timer firing, engine failure, teardown) leaves the
\* buffer, timer, in-progress flag, last-processed text, history and
\* counters of every other call B unchanged.
C24_CallsAreIsolated ==
    [][ \A a \in CallIds, b \in CallIds :
          (a # b /\ EventOf(a)) => CallUntouched(b) ]_vars

\* one call's engine call has failed while the other call, registered too,
\* has a fragment buffered and its debounce timer pending
C24_Witness ==
    \E a \in CallIds, b \in CallIds :
        /\ a # b /\ active_calls[a] # 0 /\ active_calls[b] # 0
        /\ LastTurnFailed(active_calls[a])
        /\ calls[active_calls[b]].conversation_buffer # <<>>
        /\ LiveTimers(b) # {}

\* a transcript event that is not final is handled for registered call cid
InterimEvent(cid, raw, speech_final) ==
    active_calls[cid] # 0 /\ HandleTranscript(cid, raw, FALSE, speech_final)

\* C25 (as stated): a transcript event whose is-final flag is false is
\* ignored with no state change: buffer, debounce timer, in-progress flag,
\* last-processed text, history and counters of the session stay as they were.
C25_InterimChangesNothing ==
    [][ \A cid \in CallIds, raw \in RawTranscripts, e \in BOOLEAN :
          InterimEvent(cid, raw, e) =>
              /\ calls' = calls
              /\ UNCHANGED <<active_calls, tasks, trig>> ]_vars

\* C25 (amended): a transcript event whose is-final flag is false only adds
\* one to the session's count of transcripts received: its text never enters
\* the buffer, and buffer, debounce timer, in-progress flag, last-processed
\* text, history and every other counter stay as they were.
C25_InterimOnlyCounted ==
    [][ \A cid \in CallIds, raw \in RawTranscripts, e \in BOOLEAN :
          InterimEvent(cid, raw, e) =>
              /\ calls' = [calls EXCEPT ![active_calls[cid]].transcription_count = @ + 1]
              /\ UNCHANGED <<active_calls, tasks, trig>> ]_vars

\* a session whose timer is pending on one buffered fragment has received a
\* second transcript event that left buffer and timer alone
C25_Witness ==
    \E s \in Sessions : \E t \in TaskIds :
        /\ Registered(s)
        /\ calls[s].transcription_count = 2
        /\ Len(calls[s].conversation_buffer) = 1
        /\ calls[s].gpt_timer = t
        /\ tasks[t].pc = "sleep" /\ ~tasks[t].must_cancel
        /\ trig[s] = <<>>

\* the pieces of a text between its spaces, in order
RECURSIVE Pieces(_)
Pieces(text) ==
    IF \A i \in 1..Len(text) : text[i] # SP THEN <<text>>
    ELSE LET i == CHOOSE j \in 1..Len(text) :
                      text[j] = SP /\ \A k \in 1..(j - 1) : text[k] # SP
         IN <<SubSeq(text, 1, i - 1)>> \o Pieces(SubSeq(text, i + 1, Len(text)))

\* the trigger just recorded for session dict s carries exactly the fragments
\* of buf, in order, one space apart
HandsOver(s, buf) ==
    trig'[s] # <<>> => Pieces(LastTrigger(trig', s).text) = buf

\* C26: the utterance text handed to the guard is the buffered final
\* fragments joined with exactly one space between consecutive fragments, in
\* arrival order, with nothing added, dropped or reordered.
C26_TextIsBufferJoined ==
    [][ /\ \A cid \in CallIds, raw \in RawTranscripts :
              EosEvent(cid, raw) =>
                  HandsOver(active_calls[cid],
                            Append(calls[active_calls[cid]].conversation_buffer, Strip(raw)))
        /\ \A t \in TaskIds :
              TimerFlush(t) =>
                  HandsOver(tasks[t].call_info, calls[tasks[t].call_info].conversation_buffer)
      ]_vars

\* three fragments went to the guard as one text
C26_Witness ==
    \E s \in Sessions :
        /\ trig[s] # <<>>
        /\ LastTrigger(trig, s).text = <<"hello", SP, "world", SP, "hello">>
        /\ LastTrigger(trig, s).out = "accepted"

\* the route's loop for call ID cid goes on and the session is as it was
FrameIgnored(cid) ==
    /\ conn'[cid] = "open"
    /\ UNCHANGED <<active_calls, calls, tasks, stt_streams, trig>>

\* C27: a protocol violation from the transport (non-JSON text, an
\* undecodable media payload, an unknown event type) is logged and only that
\* frame is ignored: the receive loop continues and the session stays
\* registered with its state unchanged.
C27_MalformedFrameIgnored ==
    [][ \A cid \in CallIds, ok \in BOOLEAN :
          /\ (active_calls[cid] # 0 /\ MalformedFrame(cid, ok)) => FrameIgnored(cid)
          /\ \A payload \in Payloads :
                (active_calls[cid] # 0 /\ ~b64decode(payload).ok
                 /\ MediaEvent(cid, payload, ok)) => FrameIgnored(cid) ]_vars

\* the part of C27 about undecodable media payloads alone
C27_UndecodablePayloadIgnored ==
    [][ \A cid \in CallIds, ok \in BOOLEAN, payload \in Payloads :
          (active_calls[cid] # 0 /\ ~b64decode(payload).ok
           /\ MediaEvent(cid, payload, ok)) => FrameIgnored(cid) ]_vars

\* ------------------------------------------------ playback
\* stream_to_chunks as _send_audio_response calls it: mu-law at 8 kHz, one
\* byte a sample, chunks of 20 ms
sample_rate == 8000
bytes_per_sample == 1
chunk_size_ms == 20
samples_per_chunk == (sample_rate * chunk_size_ms) \div 1000
chunk_size_bytes == samples_per_chunk * bytes_per_sample

\* base64.b64encode: every three bytes make four characters of six bits
\* each; a last group of one or two bytes is filled up with zero bits and
\* its missing characters are "="
B64Char(v) == B64Alphabet[v + 1]
b64encode(data) ==
    LET n == Len(data)
        byte(j) == IF j <= n THEN data[j] ELSE 0
    IN [k \in 1..(4 * ((n + 2) \div 3)) |->
            LET q == (k - 1) \div 4
                r == (k - 1) % 4
                b1 == byte(3 * q + 1)
                b2 == byte(3 * q + 2)
                b3 == byte(3 * q + 3)
            IN CASE r = 0 -> B64Char(b1 \div 4)
                 [] r = 1 -> B64Char((b1 % 4) * 16 + b2 \div 16)
                 [] r = 2 -> IF 3 * q + 2 > n THEN B64Pad
                             ELSE B64Char((b2 % 16) * 4 + b3 \div 64)
                 [] r = 3 -> IF 3 * q + 3 > n THEN B64Pad
                             ELSE B64Char(b3 % 64)]

\* a generator that fills its last chunk up to the nominal size
SlicePadded(audio_data, i) ==
    [k \in 1..chunk_size_bytes |->
        IF i + k <= Len(audio_data) THEN audio_data[i + k] ELSE 0]

\* audio_data[i:i + chunk_size_bytes]
Slice(audio_data, i) ==
    SubSeq(audio_data, i + 1,
           IF i + chunk_size_bytes < Len(audio_data)
           THEN i + chunk_size_bytes ELSE Len(audio_data))

\* a pacer that returns at once
SleepNone(late) == late

\* asyncio.sleep(chunk_size_ms / 1000.0) returns after that time or later
SleepFor(late) == chunk_size_ms + late

\* a service that takes every session for a telephony stream
IsLocalNever(ci) == FALSE

\* call_info.get("is_local", False)
IsLocal(ci) == ci.is_local

\* synthesized audio: byte k of a payload of n bytes; no audio (None or
\* empty) is <<>>
Tone(n) == [k \in 1..n |-> (k * 7) % 256]
Audios == {<<>>, Tone(1), Tone(chunk_size_bytes), Tone(chunk_size_bytes + 1),
           Tone(3 * chunk_size_bytes + chunk_size_bytes \div 2),
           Tone(4 * chunk_size_bytes)}

\* websocket.send_json of the telephony branch and of the local branch; at
\* and turn are history: the generator's clock and the number of the
\* response among the session's syntheses
MediaMessage(ci, chunk, at, n) ==
    [ event |-> "media", streamSid |-> <<ci.stream_sid>>,
      payload |-> b64encode(chunk), at |-> at, turn |-> n ]
AudioResponse(ci, audio_data, n) ==
    [ event |-> "audio_response", streamSid |-> <<>>,
      payload |-> b64encode(audio_data), at |-> 0, turn |-> n ]

\* _send_audio_response up to its first suspension after synthesis.  The
\* session is looked up in the registry; local: one message with the whole
\* audio if there is any; telephony: the generator yields its first chunk,
\* which is sent, or ends at once when there is no audio
PlayFirst(t, audio_data) ==
    /\ tasks[t].pc = "tts" /\ MayResume(tasks[t])
    /\ active_calls[tasks[t].call_sid] # 0
    /\ LET s == active_calls[tasks[t].call_sid]
           ci == calls[s]
           n == Len(ci.synthesized) + 1
           c0 == [calls EXCEPT ![s].synthesized = Append(@, audio_data)]
       IN IF IsLocal(ci) THEN
               LET c1 == IF audio_data # <<>>
                         THEN [c0 EXCEPT ![s].out =
                                  Append(@, AudioResponse(ci, audio_data, n))]
                         ELSE c0
               IN End(Finish(c1, tasks[t]), t)
          ELSE IF audio_data = <<>> THEN
               End(Finish(c0, tasks[t]), t)
          ELSE
               LET chunk == Slice(audio_data, 0)
               IN /\ calls' = [c0 EXCEPT ![s].out =
                                  Append(@, MediaMessage(ci, chunk, 0, n))]
                  /\ tasks' = [tasks EXCEPT ![t].pc = "pace",
                                            ![t].audio = audio_data,
                                            ![t].pos = chunk_size_bytes,
                                            ![t].sink = s,
                                            ![t].resp = n]
                  /\ trig' = trig
    /\ UNCHANGED <<rms, media, active_calls, stt_streams, conn,
                   gpt_enabled, tts_enabled, stt_enabled, events>>

\* the generator's sleep after a chunk is over: the next chunk is yielded and
\* sent, or the range is exhausted and _send_audio_response returns
Pace(t, late) ==
    /\ tasks[t].pc = "pace" /\ MayResume(tasks[t])
    /\ LET s == tasks[t].sink
           ci == calls[s]
           i == tasks[t].pos
           now == tasks[t].slept + SleepFor(late)
       IN IF i < Len(tasks[t].audio) THEN
               /\ calls' = [calls EXCEPT ![s].out =
                              Append(@, MediaMessage(ci, Slice(tasks[t].audio, i), now,
                                                     tasks[t].resp))]
               /\ tasks' = [tasks EXCEPT ![t].pos = i + chunk_size_bytes,
                                         ![t].slept = now]
               /\ trig' = trig
          ELSE
               End(Finish(calls, tasks[t]), t)
    /\ UNCHANGED <<rms, media, active_calls, stt_streams, conn,
                   gpt_enabled, tts_enabled, stt_enabled, events>>

\* One session of a call, started on either route, whose responses are played.
\* No teardown and no restart: the registry entry read at playback start stays
\* the session's own.
MaxPlays == 2
Lates == {0, 1}
PlayStart(cid, sid) ==
    active_calls[cid] = 0 /\ StreamStartAs(cid, TRUE, sid, FALSE)
\* the local microphone route marks its websocket and names the stream itself
LocalStart(cid) ==
    active_calls[cid] = 0 /\ StreamStartAs(cid, TRUE, "local", TRUE)
PlayTranscript(cid, raw) == Handle(cid, raw, TRUE, TRUE, MaxPlays)
PlaybackNext ==
    \/ \E cid \in OneCall : Connect(cid)
    \/ \E cid \in OneCall, sid \in StreamSids : PlayStart(cid, sid)
    \/ \E cid \in OneCall : LocalStart(cid)
    \/ \E cid \in OneCall, raw \in Utterances : PlayTranscript(cid, raw)
    \/ \E t \in TaskIds, r \in Replies : GptReturn(t, r)
    \/ \E t \in TaskIds, audio_data \in Audios : PlayFirst(t, audio_data)
    \/ \E t \in TaskIds, late \in Lates : Pace(t, late)
PlaybackSpec == PairInit /\ [][PlaybackNext]_vars

\* the messages of response number n in a message history, and their audio
RECURSIVE OfTurn(_, _)
OfTurn(out, n) ==
    IF out = <<>> THEN <<>>
    ELSE (IF Head(out).turn = n THEN <<Head(out)>> ELSE <<>>) \o OfTurn(Tail(out), n)

\* b64decode of a payload made of whole quads, taken quad by quad (after a
\* complete quad the decoder is back in its initial state)
Quad(payload, j) == b64decode(SubSeq(payload, 4 * j - 3, 4 * j))
RECURSIVE DecodedFrom(_, _)
DecodedFrom(payload, j) ==
    IF 4 * j > Len(payload) THEN <<>>
    ELSE Quad(payload, j).bytes \o DecodedFrom(payload, j + 1)
Decoded(payload) == DecodedFrom(payload, 1)
RECURSIVE ChunksOf(_)
ChunksOf(msgs) ==
    IF msgs = <<>> THEN <<>>
    ELSE <<Decoded(Head(msgs).payload)>> \o ChunksOf(Tail(msgs))
RECURSIVE Flatten(_)
Flatten(chunks) ==
    IF chunks = <<>> THEN <<>> ELSE Head(chunks) \o Flatten(Tail(chunks))
AudioOf(msgs) == Flatten(ChunksOf(msgs))

Ceil(n, d) == (n + d - 1) \div d
PlaybackEnds(t) == tasks[t].pc = "pace" /\ tasks'[t].pc # "pace"

\* C28: when the chunked playback of a non-empty payload of L bytes ends, the
\* generator has emitted exactly ceil(L / chunk_size_bytes) chunks, their
\* concatenation in emission order is the payload, every chunk but the last
\* has chunk_size_bytes bytes and the last has the remainder, without padding.
C28_ChunksCoverPayload ==
    [][\A t \in TaskIds : PlaybackEnds(t) =>
        LET s == active_calls[tasks[t].call_sid]
            L == Len(tasks[t].audio)
        IN \E msgs \in {OfTurn(calls'[s].out, calls[s].gpt_response_count)} :
           \E chunks \in {ChunksOf(msgs)} :
           LET n == Len(chunks)
           IN /\ L > 0
              /\ n = Ceil(L, chunk_size_bytes)
              /\ Flatten(chunks) = tasks[t].audio
              /\ \A k \in 1..n : msgs[k].payload = b64encode(chunks[k])
              /\ \A k \in 1..(n - 1) : Len(chunks[k]) = chunk_size_bytes
              /\ Len(chunks[n]) = L - (n - 1) * chunk_size_bytes
    ]_vars

\* three and a half chunk widths were played as four chunks, the last one of
\* half the width
C28_Witness ==
    \E s \in DOMAIN calls :
        /\ \A t \in TaskIds : tasks[t].pc = "free"
        /\ Len(calls[s].out) = 4
        /\ AudioOf(calls[s].out) = Tone(3 * chunk_size_bytes + chunk_size_bytes \div 2)
        /\ Len(Decoded(calls[s].out[4].payload)) = chunk_size_bytes \div 2

\* the k-th window of chunk_size_bytes bytes of a payload
Window(audio_data, k) ==
    SubSeq(audio_data, (k - 1) * chunk_size_bytes + 1,
           IF k * chunk_size_bytes < Len(audio_data)
           THEN k * chunk_size_bytes ELSE Len(audio_data))

\* C29: on a telephony session, between two consecutive chunk sends of one
\* response the pacer has slept at least chunk_size_ms; the chunks are sent
\* in payload order (the k-th message of a response carries the k-th window
\* of the payload) and each carries the session's stream identifier.
C29_PacedInOrder ==
    /\ \A s \in DOMAIN calls : \A k \in 1..Len(calls[s].out) :
            LET m == calls[s].out[k]
            IN m.event = "media" =>
                /\ m.streamSid = <<calls[s].stream_sid>>
                /\ (k > 1 /\ calls[s].out[k - 1].turn = m.turn) =>
                        m.at - calls[s].out[k - 1].at >= chunk_size_ms
    /\ \A t \in TaskIds : tasks[t].pc = "pace" =>
            LET s == active_calls[tasks[t].call_sid]
                msgs == OfTurn(calls[s].out, calls[s].gpt_response_count)
            IN /\ Len(msgs) * chunk_size_bytes = tasks[t].pos
               /\ \A k \in 1..Len(msgs) :
                    msgs[k].payload = b64encode(Window(tasks[t].audio, k))

\* a telephony response is at its third chunk; the pacer slept 20 ms before
\* the second and 21 ms before the third
C29_Witness ==
    \E t \in TaskIds :
        /\ tasks[t].pc = "pace"
        /\ tasks[t].pos = 3 * chunk_size_bytes
        /\ tasks[t].slept = 2 * chunk_size_ms + 1
        /\ LET out == calls[active_calls[tasks[t].call_sid]].out
           IN /\ Len(out) = 3
              /\ out[2].at = chunk_size_ms
              /\ out[3].streamSid = <<"MZ2">>

\* the synthesis results that held audio, in order
RECURSIVE Audible(_)
Audible(synthesized) ==
    IF synthesized = <<>> THEN <<>>
    ELSE (IF Head(synthesized) # <<>> THEN <<Head(synthesized)>> ELSE <<>>)
            \o Audible(Tail(synthesized))

\* C30: a session of the local route gets each synthesized response as exactly
\* one audio_response message holding the whole payload, with no chunk
\* message and no pacing sleep; a session of the telephony route never gets
\* an audio_response message.
C30_LocalSingleBlock ==
    /\ \A s \in DOMAIN calls :
        IF calls[s].is_local THEN
            \E spoken \in {Audible(calls[s].synthesized)} :
                /\ Len(calls[s].out) = Len(spoken)
                /\ \A k \in 1..Len(spoken) :
                        /\ calls[s].out[k].event = "audio_response"
                        /\ calls[s].out[k].payload = b64encode(spoken[k])
                        /\ calls[s].out[k].at = 0
        ELSE
            \A k \in 1..Len(calls[s].out) : calls[s].out[k].event # "audio_response"
    /\ \A t \in TaskIds :
            (tasks[t].pc = "pace" /\ active_calls[tasks[t].call_sid] # 0)
                => ~calls[active_calls[tasks[t].call_sid]].is_local

\* a local session got two responses, of four chunk widths and of one byte,
\* each as one message
C30_Witness ==
    \E s \in DOMAIN calls :
        /\ calls[s].is_local
        /\ Len(calls[s].out) = 2
        /\ calls[s].synthesized = <<Tone(4 * chunk_size_bytes), Tone(1)>>
        /\ Len(calls[s].out[1].payload) = 4 * Ceil(4 * chunk_size_bytes, 3)

\* ------------------------------------------------ codec
\* One telephony frame whose payload is the base64 of ulaw_data: handle_media
\* decodes it and _process_audio expands it.  Every code word occurs, and one
\* frame of several bytes.
MaxCodecFrames == 1
CodecInputs == {<<b>> : b \in 0..255} \cup {<<255, 0, 127>>}
CodecFrame(cid, ulaw_data) ==
    /\ media[cid].received < MaxCodecFrames
    /\ MediaEvent(cid, b64encode(ulaw_data), TRUE)
CodecNext ==
    \/ \E cid \in OneCall : Connect(cid)
    \/ \E cid \in OneCall : StartOnce(cid, TRUE)
    \/ \E cid \in OneCall, ulaw_data \in CodecInputs : CodecFrame(cid, ulaw_data)
CodecSpec == Init /\ [][CodecNext]_vars

\* the frames that were forwarded, in arrival order
RECURSIVE ForwardedData(_)
ForwardedData(frames) ==
    IF frames = <<>> THEN <<>>
    ELSE (IF Head(frames).fwd THEN <<Head(frames).data>> ELSE <<>>)
         \o ForwardedData(Tail(frames))

\* struct.unpack('<h'): the signed value of two bytes, low byte first
UnpackShort(lo, hi) ==
    IF hi >= 128 THEN lo + 256 * hi - 65536 ELSE lo + 256 * hi
Magnitude(v) == IF v < 0 THEN 0 - v ELSE v

\* C31: ulaw_decode returns two bytes for every input byte; the sample of a
\* code word b is given by its bits alone (negative iff bit 7 of b is clear,
\* exponent and mantissa the complements of bits 4..6 and 0..3, magnitude
\* (8 * mantissa + 132) * 2^exponent), fits a signed 16-bit word, and no
\* sample is nearer to zero than the one of 0xFF, which is 132.
C31_DecodeIsTwoBytesPerByte ==
    \A cid \in CallIds :
        LET data == ForwardedData(media[cid].frames)
            pcm == media[cid].sent
        IN /\ Len(pcm) = Len(data)
           /\ \A k \in 1..Len(pcm) :
                /\ Len(pcm[k]) = 2 * Len(data[k])
                /\ \A i \in 1..Len(data[k]) :
                    LET b == data[k][i]
                        lo == pcm[k][2 * i - 1]
                        hi == pcm[k][2 * i]
                        v == UnpackShort(lo, hi)
                        e == 7 - ((b \div 16) % 8)
                        m == 15 - (b % 16)
                    IN /\ lo \in 0..255 /\ hi \in 0..255
                       /\ v \in (0 - 32768)..32767
                       /\ Magnitude(v) = (8 * m + 132) * Pow2(e)
                       /\ (v < 0) = (b < 128)
                       /\ Magnitude(v) >= 132
                       /\ b = 255 => v = 132

\* the code word 0x00 was expanded to the most negative sample, -32256
C31_Witness ==
    \E cid \in CallIds :
        /\ Len(media[cid].sent) = 1
        /\ media[cid].frames[1].data = <<0>>
        /\ media[cid].sent[1] = <<0, 130>>

\* ------------------------------------------------ calculate_rms
\* The float returned is sqrt(sum_squares / sample_count), kept as that pair:
\* it is 0.0 exactly when sum_squares is 0.  struct.unpack raises when the
\* buffer is not of 2 * sample_count bytes.
RECURSIVE SumSquares(_)
SumSquares(pcm_data) ==
    IF Len(pcm_data) < 2 THEN 0
    ELSE LET sample == UnpackShort(pcm_data[1], pcm_data[2])
         IN sample * sample + SumSquares(SubSeq(pcm_data, 3, Len(pcm_data)))

UnpackAccepts(pcm_data, sample_count) == Len(pcm_data) = 2 * sample_count

calculate_rms(pcm_data) ==
    LET sample_count == Len(pcm_data) \div 2
    IN IF sample_count = 0 THEN
            [raised |-> FALSE, sum_squares |-> 0, sample_count |-> 1]
       ELSE IF ~UnpackAccepts(pcm_data, sample_count) THEN
            [raised |-> TRUE, sum_squares |-> 0, sample_count |-> sample_count]
       ELSE [raised |-> FALSE, sum_squares |-> SumSquares(pcm_data),
             sample_count |-> sample_count]

\* buffers of up to MaxRmsLen bytes, whose samples lie between -32513 and
\* 32767, so that the sum of two squares stays below 2^31
MaxRmsLen == 4
RmsBytes == {0, 1, 127, 255}
RmsInputs == UNION {[1..n -> RmsBytes] : n \in 0..MaxRmsLen}
Measure(pcm_data) ==
    /\ rms' = <<[pcm_data |-> pcm_data, result |-> calculate_rms(pcm_data)]>>
    /\ UNCHANGED <<active_calls, calls, tasks, stt_streams, conn,
                   gpt_enabled, tts_enabled, stt_enabled, trig, events, media>>
RmsNext == \E pcm_data \in RmsInputs : Measure(pcm_data)
RmsSpec == Init /\ [][RmsNext]_vars

\* the 16-bit samples of a buffer are all zero
Silent(pcm_data) ==
    \A i \in 1..(Len(pcm_data) \div 2) :
        pcm_data[2 * i - 1] = 0 /\ pcm_data[2 * i] = 0
ReturnsZero(r) == ~r.raised /\ r.sum_squares = 0
ReturnsNonZero(r) == ~r.raised /\ r.sum_squares > 0

C32_RmsZeroIffSilentWholeSamples ==
    \A k \in 1..Len(rms) :
        Len(rms[k].pcm_data) % 2 = 0 =>
            IF Silent(rms[k].pcm_data) THEN ReturnsZero(rms[k].result)
            ELSE ReturnsNonZero(rms[k].result)

\* a turn that a debounce timer started is in flight on task t
TimerTurnInFlight(t) ==
    tasks[t].kind = "timer" /\ tasks[t].pc \in {"gpt", "tts"}

\* C33: a turn started by a debounce timer, once in flight, is not aborted by
\* the timer cancel of a later final transcript: it ends only by its own
\* generation and playback ending, never by the cancellation of its task.
C33_InFlightTurnNotAborted ==
    [][ \A t \in TaskIds :
            (TimerTurnInFlight(t) /\ tasks'[t].pc = "free") => ~tasks[t].must_cancel ]_vars

\* ------------------------------------------------ overlapping playback
\* Sessions of one call whose stream may be started again while a debounce
\* timer of the earlier session is pending, with playback at chunk level.
\* A start never falls between a reply and the lookup that follows it in the
\* same step of the code (no task is at "tts" when it happens).
OverlapAudios == {Tone(chunk_size_bytes + 1)}
OverlapStart(cid, sid) ==
    /\ \A t \in TaskIds : tasks[t].pc # "tts"
    /\ StreamStartAs(cid, TRUE, sid, FALSE)
OverlapTranscript(cid, raw, speech_final) ==
    Handle(cid, raw, TRUE, speech_final, MaxStray)
OverlapNext ==
    \/ \E cid \in OneCall : Connect(cid)
    \/ \E cid \in OneCall, sid \in StreamSids : OverlapStart(cid, sid)
    \/ \E cid \in OneCall, raw \in Utterances, e \in BOOLEAN :
            OverlapTranscript(cid, raw, e)
    \/ \E t \in TaskIds : TimerElapse(t)
    \/ \E t \in TaskIds : TimerRun(t)
    \/ \E t \in TaskIds : TaskCancelled(t)
    \/ \E t \in TaskIds, r \in Replies : GptReturn(t, r)
    \/ \E t \in TaskIds, audio_data \in OverlapAudios : PlayFirst(t, audio_data)
    \/ \E t \in TaskIds : Pace(t, 0)
OverlapSpec == PairInit /\ [][OverlapNext]_vars

\* C34: the media chunks of two responses of one session are never
\* interleaved: between two chunks of one response no chunk of another
\* response is sent on that session.
C34_ResponsesNotInterleaved ==
    \A s \in DOMAIN calls :
        \A i \in 1..Len(calls[s].out), k \in 1..Len(calls[s].out) :
            (i < k /\ calls[s].out[i].turn = calls[s].out[k].turn) =>
                \A j \in i..k : calls[s].out[j].turn = calls[s].out[i].turn

\* the same while the stream of a call is started once
C34_NotInterleavedWithoutRestart ==
    Len(calls) <= 1 => C34_ResponsesNotInterleaved

\* a generation call running against session dict s returned in this step
GenerationReturned(s) ==
    \E t \in TaskIds :
        tasks[t].pc = "gpt" /\ tasks[t].target = s /\ tasks'[t].pc # "gpt"

\* C35: in every state a session's history has min(10, 2 * gpt_response_count)
\* entries; the counter and the history change only in the step in which a
\* generation call on that session returned, in which the counter grows by
\* one (a dict nothing refers to any more is dropped).
C35_HistoryTracksResponses ==
    /\ [](\A s \in Sessions :
            Len(calls[s].conversation_history) =
                IF 2 * calls[s].gpt_response_count < HistoryCap
                THEN 2 * calls[s].gpt_response_count ELSE HistoryCap)
    /\ [][ \A s \in Sessions :
            (/\ s \in DOMAIN calls'
             /\ calls'[s] # NewCallInfo
             /\ \/ calls'[s].gpt_response_count # calls[s].gpt_response_count
                \/ calls'[s].conversation_history # calls[s].conversation_history)
            => /\ GenerationReturned(s)
               /\ calls'[s].gpt_response_count = calls[s].gpt_response_count + 1 ]_vars

\* the sixth generation of a session returned: the counter is 6, the history
\* stays at ten entries
C35_Witness ==
    \E s \in Sessions :
        /\ calls[s].gpt_response_count = 6
        /\ Len(calls[s].conversation_history) = HistoryCap
        /\ ~calls[s].processing_lock

\* ------------------------------------------------ start_stream, step by step
\* The routes accept any number of websocket connections for one call ID, and
\* each runs its own handler.  A handler that has handled "start" up to the
\* await inside start_stream (entering the engine's connection context) is a
\* task of kind "start"; the listening task start_stream creates for the
\* connection it opened is a task of kind "listen".
\*
\* handle_stream_start up to that await: the session dict is replaced; then
\* start_stream returns False at once (engine disabled, or an entry exists
\* for the call ID) or goes on to open a connection
StartBegin(cid, sid) ==
    /\ conn[cid] = "open"
    /\ Len(calls) < MaxSessions
    /\ active_calls' = [active_calls EXCEPT ![cid] = Len(calls) + 1]
    /\ calls' = Collect(Append(calls, [NewCallInfo EXCEPT !.stream_sid = sid]),
                        active_calls', tasks)
    /\ trig' = CollectTrig(Append(trig, <<>>), active_calls', tasks)
    /\ IF stt_enabled /\ cid \notin stt_streams
       THEN /\ FreeSlot # 0
            /\ tasks' = [tasks EXCEPT ![FreeSlot] =
                            NewTask("start", cid, 0, "connect", <<>>, 0)]
       ELSE tasks' = tasks
    /\ UNCHANGED <<rms, media, stt_streams, conn,
                   gpt_enabled, tts_enabled, stt_enabled, events>>

\* the connection context was entered (ok) or raised: on success the
\* listening task is created and active_connections[call_sid] is assigned,
\* whatever it held
StartEnd(t, ok) ==
    /\ tasks[t].kind = "start" /\ tasks[t].pc = "connect"
    /\ IF ok
       THEN /\ tasks' = [tasks EXCEPT ![t] =
                            NewTask("listen", tasks[t].call_sid, 0, "listening", <<>>, 0)]
            /\ stt_streams' = stt_streams \cup {tasks[t].call_sid}
       ELSE /\ tasks' = EndTask(tasks, t)
            /\ stt_streams' = stt_streams
    /\ UNCHANGED <<rms, media, active_calls, calls, trig, conn,
                   gpt_enabled, tts_enabled, stt_enabled, events>>

StartNext ==
    \/ \E cid \in CallIds : Connect(cid)
    \/ \E cid \in CallIds, sid \in StreamSids : StartBegin(cid, sid)
    \/ \E t \in TaskIds, ok \in BOOLEAN : StartEnd(t, ok)
    \/ \E cid \in CallIds, payload \in PairPayloads : PairMedia(cid, payload, TRUE)
StartSpec == Init /\ [][StartNext]_vars

\* the engine connections open for a call ID
Listening(cid) ==
    {t \in TaskIds : tasks[t].kind = "listen" /\ tasks[t].call_sid = cid}

\* a start for a registered call ID has just been handled
Restarted(cid) ==
    /\ active_calls[cid] # 0
    /\ active_calls'[cid] # active_calls[cid]

\* C36: a stream start for a call ID that is already registered replaces the
\* session by a fresh one (empty buffer and history, zero counters, flag
\* clear, no timer handle), and a call ID never has two transcription
\* streams: a start_stream that finds a stream is refused and that stream is
\* kept.
C36_RestartIsFreshWithOneStream ==
    /\ [](\A cid \in CallIds : Cardinality(Listening(cid)) <= 1)
    /\ [][ \A cid \in CallIds : Restarted(cid) =>
            /\ calls'[active_calls'[cid]].conversation_buffer = <<>>
            /\ calls'[active_calls'[cid]].conversation_history = <<>>
            /\ calls'[active_calls'[cid]].transcription_count = 0
            /\ calls'[active_calls'[cid]].gpt_response_count = 0
            /\ calls'[active_calls'[cid]].audio_chunks = 0
            /\ calls'[active_calls'[cid]].bytes_received = 0
            /\ calls'[active_calls'[cid]].duplicate_prevention_count = 0
            /\ ~calls'[active_calls'[cid]].processing_lock
            /\ calls'[active_calls'[cid]].gpt_timer = 0
            /\ (cid \in stt_streams =>
                    /\ stt_streams' = stt_streams
                    /\ Listening(cid)' = Listening(cid)) ]_vars

\* the same where a start is only handled once the start before it has
\* returned: the fresh session, and the refusal of the second start_stream
C36_SequentialRestartIsFresh ==
    [][ \A cid \in CallIds :
            (Restarted(cid) /\ \A t \in TaskIds : tasks[t].kind # "start") =>
                /\ calls'[active_calls'[cid]] =
                        [NewCallInfo EXCEPT !.stream_sid = calls'[active_calls'[cid]].stream_sid]
                /\ stt_streams' = stt_streams
                /\ Cardinality(Listening(cid)') <= 1 ]_vars

\* a text that is empty or made of whitespace only; a text without
\* whitespace at either end
Blank(text) == \A i \in 1..Len(text) : text[i] = SP
Trimmed(text) == text # <<>> /\ text[1] # SP /\ text[Len(text)] # SP

\* a final transcript event with a blank text is handled for registered cid
BlankFinalEvent(cid, raw, speech_final) ==
    /\ Blank(raw)
    /\ active_calls[cid] # 0
    /\ HandleTranscript(cid, raw, TRUE, speech_final)

\* C37: a final transcript event whose text is empty or whitespace only is
\* dropped, with or without end-of-speech: nothing is appended, no flush is
\* attempted (no guard decision, no engine call, flag and last text as they
\* were), the buffer and a pending debounce timer stay as they were; and
\* every fragment in a buffer is stored without leading or trailing
\* whitespace.
C37_BlankFinalIsDropped ==
    /\ [][ \A cid \in CallIds, raw \in RawTranscripts, e \in BOOLEAN :
            BlankFinalEvent(cid, raw, e) =>
                LET s == active_calls[cid] IN
                /\ calls'[s].conversation_buffer = calls[s].conversation_buffer
                /\ calls'[s].gpt_timer = calls[s].gpt_timer
                /\ calls'[s].processing_lock = calls[s].processing_lock
                /\ calls'[s].last_processed_text = calls[s].last_processed_text
                /\ calls'[s].duplicate_prevention_count = calls[s].duplicate_prevention_count
                /\ UNCHANGED <<active_calls, tasks, trig>> ]_vars
    /\ [](\A s \in Sessions : \A i \in 1..Len(calls[s].conversation_buffer) :
            Trimmed(calls[s].conversation_buffer[i]))

\* a session that has received three transcript events holds the single
\* fragment "hello", stored without the spaces around it, and its timer is
\* still pending
C37_Witness ==
    \E s \in Sessions : \E t \in TaskIds :
        /\ Registered(s)
        /\ calls[s].transcription_count = 3
        /\ calls[s].conversation_buffer = << <<"hello">> >>
        /\ calls[s].gpt_timer = t
        /\ tasks[t].pc = "sleep" /\ ~tasks[t].must_cancel

\* ------------------------------------------------ the connection table
\* STTService.active_connections under every interleaving of its callers:
\* start_stream and stop_stream are followed across their awaits, and one
\* call ID may be served by several connections, one after the other or at
\* the same time. The listening task start_stream creates is not followed.

\* start_stream from its await on: the connection context was entered (ok)
\* or raised; on success active_connections[call_sid] is assigned
TableStartEnd(t, ok) ==
    /\ tasks[t].kind = "start" /\ tasks[t].pc = "connect"
    /\ tasks' = EndTask(tasks, t)
    /\ stt_streams' = IF ok THEN stt_streams \cup {tasks[t].call_sid} ELSE stt_streams
    /\ UNCHANGED <<rms, media, active_calls, calls, trig, conn,
                   gpt_enabled, tts_enabled, stt_enabled, events>>

\* stop_stream up to its first await: without an entry it returns False at
\* once, otherwise it sends CloseStream and exits the connection context
StopAwaits(cid) == MustStop(cid) /\ cid \in stt_streams

\* event "stop" -> handle_stream_stop, up to the await inside stop_stream
StopBegin(cid) ==
    /\ conn[cid] = "open"
    /\ conn' = [conn EXCEPT ![cid] = "stopped"]
    /\ IF StopAwaits(cid)
       THEN /\ FreeSlot # 0
            /\ tasks' = [tasks EXCEPT ![FreeSlot] =
                            NewTask("stop", cid, 0, "closing", <<>>, 0)]
       ELSE tasks' = tasks
    /\ UNCHANGED <<rms, media, active_calls, calls, trig, stt_streams,
                   gpt_enabled, tts_enabled, stt_enabled, events>>

\* the route's finally block -> cleanup_call, up to the await inside
\* stop_stream; when nothing is awaited the registry entry is deleted at once
CleanupBegin(cid) ==
    /\ conn[cid] \in {"open", "stopped"}
    /\ conn' = [conn EXCEPT ![cid] = "closed"]
    /\ IF StopAwaits(cid)
       THEN /\ FreeSlot # 0
            /\ tasks' = [tasks EXCEPT ![FreeSlot] =
                            NewTask("cleanup", cid, 0, "closing", <<>>, 0)]
            /\ UNCHANGED <<active_calls, calls, trig>>
       ELSE /\ tasks' = tasks
            /\ active_calls' = [active_calls EXCEPT ![cid] = 0]
            /\ calls' = Collect(calls, active_calls', tasks)
            /\ trig' = CollectTrig(trig, active_calls', tasks)
    /\ UNCHANGED <<rms, media, stt_streams,
                   gpt_enabled, tts_enabled, stt_enabled, events>>

\* stop_stream from its await on: closing raised (not ok) or returned, then
\* "del self.active_connections[call_sid]", which raises KeyError when
\* another stop_stream deleted the entry meanwhile; cleanup_call then
\* deletes the registry entry
StopEnd(t, ok) ==
    /\ tasks[t].kind \in {"stop", "cleanup"} /\ tasks[t].pc = "closing"
    /\ tasks' = EndTask(tasks, t)
    /\ stt_streams' = SttStop(stt_streams, tasks[t].call_sid, ok)
    /\ active_calls' = IF tasks[t].kind = "cleanup"
                       THEN [active_calls EXCEPT ![tasks[t].call_sid] = 0]
                       ELSE active_calls
    /\ calls' = Collect(calls, active_calls', tasks')
    /\ trig' = CollectTrig(trig, active_calls', tasks')
    /\ UNCHANGED <<rms, media, conn, gpt_enabled, tts_enabled, stt_enabled, events>>

TableNext ==
    \/ \E cid \in CallIds : Connect(cid)
    \/ \E cid \in CallIds, sid \in StreamSids : StartBegin(cid, sid)
    \/ \E t \in TaskIds, ok \in BOOLEAN : TableStartEnd(t, ok)
    \/ \E cid \in CallIds, payload \in PairPayloads, ok \in BOOLEAN :
            PairMedia(cid, payload, ok)
    \/ \E cid \in CallIds : StopBegin(cid)
    \/ \E cid \in CallIds : CleanupBegin(cid)
    \/ \E t \in TaskIds, ok \in BOOLEAN : StopEnd(t, ok)

TableSpec == Init /\ [][TableNext]_vars

\* a start_stream call for cid returns True in this step
StartSucceeds(cid) ==
    \E t \in TaskIds : tasks[t].call_sid = cid /\ TableStartEnd(t, TRUE)

\* a stop_stream call for cid returns in this step: True when closing did
\* not raise and the entry was still there to delete, False otherwise
StopSucceeds(cid) ==
    \E t \in TaskIds : tasks[t].call_sid = cid /\ StopEnd(t, TRUE) /\ cid \in stt_streams
StopFails(cid) ==
    \E t \in TaskIds :
        /\ tasks[t].call_sid = cid
        /\ StopEnd(t, FALSE) \/ (StopEnd(t, TRUE) /\ cid \notin stt_streams)

\* send_audio or stop_stream is called for cid in this step
SendOrStopCalled(cid) ==
    \/ \E payload \in PairPayloads, ok \in BOOLEAN :
            /\ PairMedia(cid, payload, ok)
            /\ Len(media'[cid].frames) > Len(media[cid].frames)
    \/ MustStop(cid) /\ (StopBegin(cid) \/ CleanupBegin(cid))

\* C38: a call ID enters active_connections only when a start_stream for it
\* succeeds and leaves it only when a stop_stream for it succeeds, and each
\* of the two has that effect; send_audio and stop_stream for a call ID
\* without an entry return without sending anything, closing anything or
\* changing the table; a stop_stream that fails removes no entry.
C38_EntryFromStartToStop ==
    [][ \A cid \in CallIds :
          /\ (cid \notin stt_streams /\ cid \in stt_streams') => StartSucceeds(cid)
          /\ (cid \in stt_streams /\ cid \notin stt_streams') => StopSucceeds(cid)
          /\ StartSucceeds(cid) => cid \in stt_streams'
          /\ StopSucceeds(cid) => cid \notin stt_streams'
          /\ StopFails(cid) => stt_streams' = stt_streams
          /\ (cid \notin stt_streams /\ SendOrStopCalled(cid)) =>
                /\ stt_streams' = stt_streams
                /\ media'[cid].sent = media[cid].sent
                /\ tasks' = tasks ]_vars

\* the stop event was handled while the call had an entry that had carried
\* audio, nothing is in flight any more, and the entry is still in place:
\* the stop_stream failed
C38_Witness ==
    \E cid \in CallIds :
        /\ conn[cid] = "stopped"
        /\ cid \in stt_streams
        /\ Len(media[cid].sent) >= 1
        /\ \A t \in TaskIds : tasks[t].pc = "free"
        /\ Len(calls) = 1

====
